---- MODULE Spec2Model ----
(***************************************************************************)
(* Model of siphon-daemon's activity state aggregation engine:             *)
(*   - the event deduplicator          (src/siphon-daemon/src/dedup.rs)    *)
(*   - the idle / session state machine (src/siphon-daemon/src/idle.rs)    *)
(*   - the meeting detector            (src/siphon-daemon/src/meeting.rs)  *)
(*   - the tick loop and the handlers  (src/siphon-daemon/src/main.rs,     *)
(*                                       src/siphon-daemon/src/api.rs)     *)
(*                                                                         *)
(* Time.  Instant::now() and Utc::now() are read from one clock, `now`,    *)
(* counted in clock units; SubSec units make one second, so that           *)
(* Duration::as_secs and TimeDelta::num_seconds truncate.  The deduplicator *)
(* only compares durations, so its configuration is given in clock units.  *)
(* Strings whose characters matter (formatted contents, application names) *)
(* are sequences of one-character strings.                                 *)
(***************************************************************************)
EXTENDS Integers, Sequences, FiniteSets, TLC

VARIABLES
    now,              \* the clock behind Instant::now() / Utc::now()
    \* ---- Deduplicator (dedup.rs:77-81)
    config,           \* DedupConfig {window, max_entries, cleanup_interval}
    cache,            \* HashMap<EventKey, CacheEntry>
    last_cleanup,     \* Instant of the last sweep
    \* ---- observation of the deduplicator's calls
    ret,              \* value returned by the last should_process (FALSE before any)
    arg,              \* raw signal of the last should_process
    calls,            \* number of should_process calls so far, saturating at 3
    accepted_at,      \* per raw signal: instant of its last accepted call, Never if none
    \* ---- IdleDetector (idle.rs:181-202)
    idle_config,            \* IdleConfig
    last_activity,          \* Instant
    last_activity_time,     \* DateTime<Utc>
    current_state,          \* ActivityState
    session_start,          \* Option<(Instant, DateTime<Utc>)>
    session_event_count,    \* u64
    idle_periods,           \* Vec<IdlePeriod>
    current_idle_start,     \* Option<DateTime<Utc>>
    last_activity_type,     \* Option<String>
    last_activity_category, \* Option<ActivityCategory>
    in_meeting,             \* bool
    category_time,          \* HashMap<String, u64>
    last_category_change,   \* Instant
    current_category,       \* Option<ActivityCategory>
    session_had_meetings,   \* bool
    \* ---- observation of the detector's calls
    op,               \* the last call made on the detector
    ev,               \* the Option<IdleEventData> it returned
    probe,            \* the system idle reading the last check_idle consulted, if any
    snapshot,         \* the Option<SessionData> the last end_session returned
    \* ---- MeetingDetector (meeting.rs:177-186)
    meeting_config,           \* MeetingConfig
    meeting_state,            \* current_state: MeetingState
    potential_meeting_start,  \* Option<Instant>
    last_meeting_activity,    \* Option<Instant>
    emitted_start,            \* bool
    \* ---- observation of the meeting detector's calls
    last_window,      \* the Option<&WindowInfo> given to the last check_window
    events,           \* the Vec<MeetingEvent> it returned
    \* ---- the tick loop (main.rs:179-358) and the handlers (api.rs)
    tick_pc,              \* where the loop is: <<section, step>>
    locks,                \* per Mutex of AppState: "free", "tick" or a handler
    IDLE_COUNTER,         \* static mut IDLE_COUNTER: u32
    ticks,                \* ticks completed by ticker.tick()
    trackers,             \* the optional collaborators that are Some in AppState
    tracker_last_window,  \* WindowTracker.last_window
    current_window,       \* the loop's current_window
    pending,              \* meeting events of this tick not yet handled
    handler_pc,           \* per request handler in flight: <<where it is, its event>>
    stored,               \* the sections whose events the store holds
    \* ---- observation of the loop
    synced,               \* set_in_meeting was called in this tick
    idle_check_skipped,   \* a due check_idle was skipped and none was made since
    unstored,             \* derived records the loop got and has not given to insert_event
    unrecorded            \* sections whose signal was stored without a record_activity

dedupVars == <<config, cache, last_cleanup, ret, arg, calls, accepted_at>>

idleVars ==
    <<idle_config, last_activity, last_activity_time, current_state, session_start,
      session_event_count, idle_periods, current_idle_start, last_activity_type,
      last_activity_category, in_meeting, category_time, last_category_change,
      current_category, session_had_meetings, op, ev, probe, snapshot>>

meetingVars ==
    <<meeting_config, meeting_state, potential_meeting_start, last_meeting_activity,
      emitted_start, last_window, events>>

loopVars ==
    <<tick_pc, locks, IDLE_COUNTER, ticks, trackers, tracker_last_window, current_window,
      pending, handler_pc, stored, synced, idle_check_skipped, unstored,
      unrecorded>>

Never == 0 - 1

\* Option<T>: None is the empty sequence, Some(x) the sequence holding x.
None == << >>
Some(x) == <<x>>
IsSome(o) == o # None
Unwrap(o) == o[1]

Min(a, b) == IF a < b THEN a ELSE b
Max(a, b) == IF a > b THEN a ELSE b

(***************************************************************************)
(* Bounds of the model.                                                    *)
(***************************************************************************)
MaxTimeCap   == 1   \* horizon of the capacity-pressure specification
MaxTimeSweep == 11  \* horizon of the sweep specification (one expiry: 10 x window)
MaxCount     == 2   \* cap on CacheEntry.count (u32 in the code)
MaxTimeIdle  == 4   \* horizon of the idle detector without the system idle probe
MaxTimeProbe == 2   \* horizon of the idle detector with the system idle probe
MaxEvents    == 2   \* cap on session_event_count (u64 in the code)
MaxPeriods   == 2   \* cap on the length of idle_periods
MaxSysIdle   == 2   \* largest reading of the system idle probe
SubSec       == 2   \* clock units per second
MaxTimeMeeting == 8 \* horizon of the meeting detector called at arbitrary instants
MaxTicks     == 91  \* seconds the meeting detector is followed at one call per second
MaxQuietTicks == 11 \* ticks of the loop followed while it has no activity to record
MaxBusyTicks == 2   \* ticks of the loop followed otherwise
MaxTimeIngest == 5  \* clock units over which the ingest handlers are followed alone

(***************************************************************************)
(* EventKey (dedup.rs:31-67)                                               *)
(***************************************************************************)
\* The decimal digits of n >= 0, as Display for integers prints them.
RECURSIVE Digits(_)
Digits(n) ==
    LET d == <<"0", "1", "2", "3", "4", "5", "6", "7", "8", "9">>[(n % 10) + 1]
    IN  IF n < 10 THEN <<d>> ELSE Digits(n \div 10) \o <<d>>

\* format!("{}", exit_code) for an i32
FormatI32(n) == IF n < 0 THEN <<"-">> \o Digits(0 - n) ELSE Digits(n)

\* DefaultHasher over the content string.  SipHash is taken to be free of
\* collisions on the contents of the model: the hash of a content string is
\* represented by the string it was computed from.
DefaultHasher(content) == content

EventKeyNew(source, event_type, content) ==
    [source |-> source, event_type |-> event_type, content_hash |-> DefaultHasher(content)]

FromShellNoExit(command, exit_code) == EventKeyNew("shell", "command", command)

FromShell(command, exit_code) ==
    EventKeyNew("shell", "command", command \o <<":">> \o FormatI32(exit_code))

FromEditor(action, file_path) == EventKeyNew("editor", action, file_path)

FromFilesystem(action, file_path) == EventKeyNew("filesystem", action, file_path)

\* Raw signals as the ingest handlers receive them (api.rs:77,158,229).
ShellSignal(command, exit_code) ==
    [kind |-> "shell", command |-> command, exit_code |-> exit_code]
EditorSignal(action, file_path) ==
    [kind |-> "editor", action |-> action, file_path |-> file_path]
FilesystemSignal(action, file_path) ==
    [kind |-> "filesystem", action |-> action, file_path |-> file_path]

KeyOf(sig) ==
    CASE sig.kind = "shell"      -> FromShell(sig.command, sig.exit_code)
      [] sig.kind = "editor"     -> FromEditor(sig.action, sig.file_path)
      [] sig.kind = "filesystem" -> FromFilesystem(sig.action, sig.file_path)

SweepSignals ==
    { ShellSignal(<<"l", "s">>, 0), ShellSignal(<<"l", "s">>, 1) }

\* Three keys: one to expire, one to stay and one to present.
ExpirySignals == SweepSignals \cup { EditorSignal("save", <<"a">>) }

CapSignals ==
    SweepSignals \cup
    { EditorSignal("save", <<"a">>),
      EditorSignal("open", <<"a">>),
      FilesystemSignal("save", <<"a">>) }

Signals == CapSignals

NoSignal == [kind |-> "none"]

(***************************************************************************)
(* Deduplicator (dedup.rs:83-183)                                          *)
(***************************************************************************)
\* Instant::duration_since saturates at zero.
DurationSince(later, earlier) == IF later >= earlier THEN later - earlier ELSE 0

\* A window test that finds no call inside the window.
WithinWindowNever(t, timestamp, window) == FALSE

WithinWindowInclusive(t, timestamp, window) == DurationSince(t, timestamp) <= window

\* dedup.rs:102  now.duration_since(entry.timestamp) < self.config.window
WithinWindow(t, timestamp, window) == DurationSince(t, timestamp) < window

\* A sweep that keeps only the entries still inside their window.
RetainedOneWindow(t, timestamp, window) == DurationSince(t, timestamp) < window

\* dedup.rs:146  the sweep keeps entries younger than 10 x window
Retained(t, timestamp, window) == DurationSince(t, timestamp) < window * 10

\* dedup.rs:136-149  maybe_cleanup: the cache and last_cleanup it leaves at instant t
CleanupDue(t) == DurationSince(t, last_cleanup) >= config.cleanup_interval

MaybeCleanup(t) ==
    IF ~CleanupDue(t)
    THEN [cache |-> cache, last_cleanup |-> last_cleanup]
    ELSE [cache |-> [k \in {k \in DOMAIN cache : Retained(t, cache[k].timestamp, config.window)}
                        |-> cache[k]],
          last_cleanup |-> t]

\* dedup.rs:116  self.config.max_entries / 4
EvictCount(max_entries) == max_entries \div 4

\* dedup.rs:152-167  evict_oldest: the sets of keys it may remove.  The entries
\* are sorted by timestamp; among equal timestamps the order is the HashMap's
\* iteration order, which is arbitrary.
EvictOldest(c, count) ==
    { E \in SUBSET DOMAIN c :
        /\ Cardinality(E) = Min(count, Cardinality(DOMAIN c))
        /\ \A e \in E : \A f \in (DOMAIN c) \ E : c[e].timestamp <= c[f].timestamp }

Put(c, key, entry) ==
    [k \in (DOMAIN c) \cup {key} |-> IF k = key THEN entry ELSE c[k]]

\* A duplicate that also restarts the window of its entry.
RepeatedRefreshed(entry, t) == [timestamp |-> t, count |-> entry.count + 1]

\* dedup.rs:102-106  the entry after a duplicate seen at instant t
Repeated(entry, t) == [entry EXCEPT !.count = @ + 1]

Observe(sig, t, result) ==
    /\ ret' = result
    /\ arg' = sig
    /\ calls' = Min(calls + 1, 3)
    /\ accepted_at' = IF result THEN [accepted_at EXCEPT ![sig] = t] ELSE accepted_at

\* dedup.rs:95-128  should_process(key) called at instant t
ShouldProcess(sig, t) ==
    LET key == KeyOf(sig)
        swept == MaybeCleanup(t)
        c == swept.cache
    IN  /\ now' = t
        /\ last_cleanup' = swept.last_cleanup
        /\ UNCHANGED config
        /\ IF key \in DOMAIN c
           THEN IF WithinWindow(t, c[key].timestamp, config.window)
                THEN /\ c[key].count < MaxCount
                     /\ cache' = [c EXCEPT ![key] = Repeated(@, t)]
                     /\ Observe(sig, t, FALSE)
                ELSE /\ cache' = [c EXCEPT ![key] = [timestamp |-> t, count |-> 1]]
                     /\ Observe(sig, t, TRUE)
           ELSE /\ \E E \in (IF Cardinality(DOMAIN c) >= config.max_entries
                             THEN EvictOldest(c, EvictCount(config.max_entries))
                             ELSE {{}}) :
                     cache' = Put([k \in (DOMAIN c) \ E |-> c[k]], key,
                                  [timestamp |-> t, count |-> 1])
                /\ Observe(sig, t, TRUE)

\* dedup.rs:85-91  Deduplicator::new at instant 0
DedupNew(cfg) ==
    /\ config = cfg
    /\ cache = << >>
    /\ last_cleanup = 0
    /\ ret = FALSE
    /\ arg = NoSignal
    /\ calls = 0
    /\ accepted_at = [s \in Signals |-> Never]

(***************************************************************************)
(* ActivityCategory (idle.rs:14-102)                                       *)
(***************************************************************************)
\* str::to_lowercase on the ASCII letters the model's names hold
LowerChar(ch) ==
    CASE ch = "A" -> "a" [] ch = "B" -> "b" [] ch = "C" -> "c" [] ch = "D" -> "d"
      [] ch = "E" -> "e" [] ch = "F" -> "f" [] ch = "G" -> "g" [] ch = "H" -> "h"
      [] ch = "I" -> "i" [] ch = "J" -> "j" [] ch = "K" -> "k" [] ch = "L" -> "l"
      [] ch = "M" -> "m" [] ch = "N" -> "n" [] ch = "O" -> "o" [] ch = "P" -> "p"
      [] ch = "Q" -> "q" [] ch = "R" -> "r" [] ch = "S" -> "s" [] ch = "T" -> "t"
      [] ch = "U" -> "u" [] ch = "V" -> "v" [] ch = "W" -> "w" [] ch = "X" -> "x"
      [] ch = "Y" -> "y" [] ch = "Z" -> "z"
      [] OTHER -> ch

ToLowercase(str) == [i \in 1..Len(str) |-> LowerChar(str[i])]

\* str::contains
Contains(str, pat) ==
    \E i \in 0..(Len(str) - Len(pat)) : SubSeq(str, i + 1, i + Len(pat)) = pat

ContainsAny(str, pats) == \E pat \in pats : Contains(str, pat)

\* idle.rs:36-46
FromActivityType(activity_type) ==
    CASE activity_type \in {"shell", "command", "terminal"} -> "Terminal"
      [] activity_type \in {"editor", "file_save", "file_open"} -> "Coding"
      [] activity_type \in {"meeting", "video_call"} -> "Meeting"
      [] OTHER -> "Other"

\* idle.rs:49-101
FromAppName(app_name) ==
    LET app_lower == ToLowercase(app_name)
    IN  IF ContainsAny(app_lower,
              { <<"c","o","d","e">>, <<"v","i","m">>, <<"e","m","a","c","s">>,
                <<"i","d","e","a">>, <<"x","c","o","d","e">>,
                <<"s","u","b","l","i","m","e">>, <<"a","t","o","m">>,
                <<"c","u","r","s","o","r">> })
        THEN "Coding"
        ELSE IF ContainsAny(app_lower,
              { <<"s","l","a","c","k">>, <<"t","e","a","m","s">>, <<"m","a","i","l">>,
                <<"o","u","t","l","o","o","k">>, <<"m","e","s","s","a","g","e","s">>,
                <<"d","i","s","c","o","r","d">> })
        THEN "Communication"
        ELSE IF ContainsAny(app_lower,
              { <<"z","o","o","m">>, <<"m","e","e","t">>,
                <<"f","a","c","e","t","i","m","e">>, <<"w","e","b","e","x">> })
        THEN "Meeting"
        ELSE IF ContainsAny(app_lower,
              { <<"p","h","o","t","o","s","h","o","p">>,
                <<"i","l","l","u","s","t","r","a","t","o","r">>,
                <<"f","i","g","m","a">>, <<"s","k","e","t","c","h">>,
                <<"b","l","e","n","d","e","r">>, <<"p","r","e","m","i","e","r","e">> })
        THEN "Creative"
        ELSE IF ContainsAny(app_lower,
              { <<"c","h","r","o","m","e">>, <<"s","a","f","a","r","i">>,
                <<"f","i","r","e","f","o","x">>, <<"a","r","c">>, <<"e","d","g","e">> })
        THEN "Research"
        ELSE IF ContainsAny(app_lower,
              { <<"t","e","r","m","i","n","a","l">>, <<"i","t","e","r","m">>,
                <<"w","a","r","p">>, <<"a","l","a","c","r","i","t","t","y">>,
                <<"k","i","t","t","y">> })
        THEN "Terminal"
        ELSE "Other"

\* format!("{:?}", x).to_lowercase() of an ActivityCategory or ActivityState
DebugLower(x) ==
    CASE x = "Coding" -> "coding" [] x = "Meeting" -> "meeting"
      [] x = "Communication" -> "communication" [] x = "Research" -> "research"
      [] x = "Creative" -> "creative" [] x = "Terminal" -> "terminal"
      [] x = "Other" -> "other"
      [] x = "Active" -> "active" [] x = "Idle" -> "idle" [] x = "Away" -> "away"

(***************************************************************************)
(* IdleDetector (idle.rs:241-517)                                          *)
(***************************************************************************)
\* Duration::as_secs, TimeDelta::num_seconds: whole seconds of d clock units
AsSecs(d) == d \div SubSec

\* (now_utc - idle_start).num_seconds() as u64
NumSeconds(later, earlier) == AsSecs(later - earlier)

\* idle.rs:243-261  IdleDetector::new at instant 0
IdleNew(cfg) ==
    /\ idle_config = cfg
    /\ last_activity = 0
    /\ last_activity_time = 0
    /\ current_state = "Active"
    /\ session_start = None
    /\ session_event_count = 0
    /\ idle_periods = << >>
    /\ current_idle_start = None
    /\ last_activity_type = None
    /\ last_activity_category = None
    /\ in_meeting = FALSE
    /\ category_time = << >>
    /\ last_category_change = 0
    /\ current_category = None
    /\ session_had_meetings = FALSE
    /\ op = "new"
    /\ ev = None
    /\ probe = None
    /\ snapshot = None

\* idle.rs:264-272
SetInMeeting(flag) ==
    /\ UNCHANGED now
    /\ session_had_meetings' = (IF flag /\ ~in_meeting THEN TRUE ELSE session_had_meetings)
    /\ in_meeting' = flag
    /\ op' = "set_in_meeting"
    /\ ev' = None
    /\ probe' = None
    /\ snapshot' = None
    /\ UNCHANGED <<idle_config, last_activity, last_activity_time, current_state,
                   session_start, session_event_count, idle_periods, current_idle_start,
                   last_activity_type, last_activity_category, category_time,
                   last_category_change, current_category>>

\* An update_category_time that credits nothing.
CreditedCategoryTimeNone(t) == category_time

\* idle.rs:275-287  update_category_time: the category_time map it leaves
CreditedCategoryTime(t) ==
    LET elapsed == AsSecs(DurationSince(t, last_category_change))
    IN  IF IsSome(current_category)
        THEN LET cat_name == DebugLower(Unwrap(current_category))
                 old == IF cat_name \in DOMAIN category_time THEN category_time[cat_name] ELSE 0
             IN  Put(category_time, cat_name, old + elapsed)
        ELSE category_time

\* A period that runs backwards, from the closing instant to the idle start.
ClosedPeriodReversed(idle_start, t) ==
    [started_at |-> t, ended_at |-> idle_start, duration_seconds |-> NumSeconds(t, idle_start)]

\* idle.rs:315-322, 429-436  the idle period closed at instant t
ClosedPeriod(idle_start, t) ==
    [started_at |-> idle_start, ended_at |-> t, duration_seconds |-> NumSeconds(t, idle_start)]

\* idle.rs:314-322, 428-436  idle_periods after closing the open idle period, if any
ClosePeriod(t) ==
    IF IsSome(current_idle_start)
    THEN Append(idle_periods, ClosedPeriod(Unwrap(current_idle_start), t))
    ELSE idle_periods

ActivityEventAlways(previous_state, t, new_last_activity, activity_type, category) ==
    Some([previous_state |-> DebugLower(previous_state),
          new_state |-> "active",
          idle_duration_seconds |-> AsSecs(DurationSince(t, new_last_activity)),
          last_activity_type |-> Some(activity_type),
          last_activity_category |-> Some(category),
          system_idle |-> FALSE])

\* idle.rs:345-363  the event record_activity returns; last_activity was
\* already set to `t` at idle.rs:332 when the duration is computed
ActivityEvent(previous_state, t, new_last_activity, activity_type, category) ==
    IF previous_state # "Active"
    THEN Some([previous_state |-> DebugLower(previous_state),
               new_state |-> "active",
               idle_duration_seconds |-> AsSecs(DurationSince(t, new_last_activity)),
               last_activity_type |-> Some(activity_type),
               last_activity_category |-> Some(category),
               system_idle |-> FALSE])
    ELSE None

\* idle.rs:325  whether record_activity opens a session
OpensSession == session_start = None

\* idle.rs:295-364
RecordActivityWithApp(t, activity_type, app_name) ==
    LET previous_state == current_state
        category == IF IsSome(app_name) THEN FromAppName(Unwrap(app_name))
                    ELSE FromActivityType(activity_type)
        opens == OpensSession
    IN  /\ session_event_count < MaxEvents
        /\ Len(ClosePeriod(t)) <= MaxPeriods
        /\ now' = t
        /\ current_category' = Some(category)
        /\ last_category_change' = t
        /\ idle_periods' = ClosePeriod(t)
        /\ current_idle_start' = None
        /\ session_start' = (IF opens THEN Some([instant |-> t, utc |-> t]) ELSE session_start)
        /\ category_time' = (IF opens THEN << >> ELSE CreditedCategoryTime(t))
        /\ last_activity' = t
        /\ last_activity_time' = t
        /\ current_state' = "Active"
        /\ session_event_count' = session_event_count + 1
        /\ last_activity_type' = Some(activity_type)
        /\ last_activity_category' = Some(category)
        /\ session_had_meetings' =
             ((IF opens THEN FALSE ELSE session_had_meetings) \/ category = "Meeting")
        /\ op' = "record_activity"
        /\ probe' = None
        /\ snapshot' = None
        /\ ev' = ActivityEvent(previous_state, t, t, activity_type, category)
        /\ UNCHANGED <<idle_config, in_meeting>>

SuppressedWhateverConfig == in_meeting

\* idle.rs:369  the meeting flag suppresses idle detection
Suppressed == in_meeting /\ idle_config.ignore_idle_in_meetings

\* idle.rs:390-404  (elapsed, using_system_idle); system_idle is the probe's
\* Option<Duration>: None off macOS or when ioreg gives nothing
Elapsed(t, system_idle) ==
    LET app_elapsed == DurationSince(t, last_activity)
    IN  IF idle_config.use_system_idle /\ IsSome(system_idle) /\ Unwrap(system_idle) > app_elapsed
        THEN [elapsed |-> Unwrap(system_idle), using_system_idle |-> TRUE]
        ELSE [elapsed |-> app_elapsed, using_system_idle |-> FALSE]

TargetStateStrict(elapsed) ==
    IF elapsed > idle_config.session_end_threshold THEN "Away"
    ELSE IF elapsed > idle_config.idle_threshold THEN "Idle"
    ELSE "Active"

\* idle.rs:406-412
TargetState(elapsed) ==
    IF elapsed >= idle_config.session_end_threshold THEN "Away"
    ELSE IF elapsed >= idle_config.idle_threshold THEN "Idle"
    ELSE "Active"

AlwaysChanged(new_state, previous_state) == TRUE

\* idle.rs:414
StateChanged(new_state, previous_state) == new_state # previous_state

\* idle.rs:369-383  check_idle with the meeting flag in force
CheckIdleInMeeting(t) ==
    /\ now' = t
    /\ current_state' = "Active"
    /\ ev' = IF current_state # "Active"
             THEN Some([previous_state |-> DebugLower(current_state'),
                        new_state |-> "active",
                        idle_duration_seconds |-> 0,
                        last_activity_type |-> Some("meeting"),
                        last_activity_category |-> Some("Meeting"),
                        system_idle |-> FALSE])
             ELSE None
    /\ UNCHANGED <<idle_periods, current_idle_start, category_time, last_category_change,
                   current_category>>

\* idle.rs:385-451  check_idle on the thresholds
CheckIdleThresholds(t, system_idle) ==
    LET previous_state == current_state
        el == Elapsed(t, system_idle)
        new_state == TargetState(el.elapsed)
    IN  /\ now' = t
        /\ IF StateChanged(new_state, previous_state)
           THEN /\ current_state' = new_state
                /\ IF new_state # "Active"
                   THEN /\ category_time' = CreditedCategoryTime(t)
                        /\ current_category' = None
                        /\ last_category_change' = t
                   ELSE UNCHANGED <<category_time, current_category, last_category_change>>
                /\ IF new_state = "Idle"
                   THEN /\ current_idle_start' = Some(t)
                        /\ UNCHANGED idle_periods
                   ELSE IF new_state = "Away"
                   THEN /\ Len(ClosePeriod(t)) <= MaxPeriods
                        /\ idle_periods' = ClosePeriod(t)
                        /\ current_idle_start' = None
                   ELSE UNCHANGED <<idle_periods, current_idle_start>>
                /\ ev' = Some([previous_state |-> DebugLower(previous_state),
                               new_state |-> DebugLower(new_state),
                               idle_duration_seconds |-> AsSecs(el.elapsed),
                               last_activity_type |-> last_activity_type,
                               last_activity_category |-> last_activity_category,
                               system_idle |-> el.using_system_idle])
           ELSE /\ ev' = None
                /\ UNCHANGED <<current_state, idle_periods, current_idle_start,
                               category_time, last_category_change, current_category>>

\* idle.rs:367-451
CheckIdle(t, system_idle) ==
    /\ IF Suppressed THEN CheckIdleInMeeting(t) ELSE CheckIdleThresholds(t, system_idle)
    /\ op' = "check_idle"
    /\ probe' = (IF ~Suppressed /\ idle_config.use_system_idle THEN system_idle ELSE None)
    /\ snapshot' = None
    /\ UNCHANGED <<idle_config, last_activity, last_activity_time, session_start,
                   session_event_count, last_activity_type, last_activity_category,
                   in_meeting, session_had_meetings>>

RECURSIVE SumDurations(_)
SumDurations(periods) ==
    IF periods = << >> THEN 0
    ELSE Head(periods).duration_seconds + SumDurations(Tail(periods))

\* idle.rs:456,465  duration.as_secs()
DurationSecs(t) == AsSecs(DurationSince(t, Unwrap(session_start).instant))

\* idle.rs:464
TotalIdleSecs == SumDurations(idle_periods)

\* idle.rs:466  duration_secs.saturating_sub(total_idle_secs)
ActiveSecs(t) == Max(DurationSecs(t) - TotalIdleSecs, 0)

\* idle.rs:454-480  get_session() called at instant t
GetSession(t) ==
    IF session_start = None THEN None
    ELSE Some([session_id |-> <<"session-", AsSecs(Unwrap(session_start).utc)>>,
               started_at |-> Unwrap(session_start).utc,
               ended_at |-> IF current_state = "Away" THEN Some(last_activity_time) ELSE None,
               duration_minutes |-> DurationSecs(t) \div 60,
               event_count |-> session_event_count,
               idle_periods |-> idle_periods,
               time_by_category |-> category_time,
               had_meetings |-> session_had_meetings,
               active_minutes |-> ActiveSecs(t) \div 60])

\* idle.rs:514-516
InSession == session_start # None /\ current_state # "Away"

\* idle.rs:488-501  end_session() called at instant t
EndSession(t) ==
    /\ now' = t
    /\ snapshot' = GetSession(t)
    /\ session_start' = None
    /\ session_event_count' = 0
    /\ idle_periods' = << >>
    /\ current_idle_start' = None
    /\ category_time' = << >>
    /\ session_had_meetings' = FALSE
    /\ current_category' = None
    /\ op' = "end_session"
    /\ ev' = None
    /\ probe' = None
    /\ UNCHANGED <<idle_config, last_activity, last_activity_time, current_state,
                   last_activity_type, last_activity_category, in_meeting,
                   last_category_change>>

(***************************************************************************)
(* MeetingDetector (meeting.rs:188-338)                                    *)
(***************************************************************************)
\* meeting.rs:14-66  the table of known meeting applications, in table order
MEETING_APPS ==
    <<
      [app_name_contains |-> {<<"z", "o", "o", "m", ".", "u", "s">>,
                               <<"Z", "o", "o", "m">>},
       title_patterns |-> {<<"Z", "o", "o", "m", " ", "M", "e", "e", "t", "i", "n", "g">>,
                            <<"Z", "o", "o", "m", " ", "W", "e", "b", "i", "n", "a", "r">>},
       platform |-> "Zoom"],
      [app_name_contains |-> {<<"G", "o", "o", "g", "l", "e", " ", "C", "h", "r", "o", "m", "e">>,
                               <<"A", "r", "c">>,
                               <<"S", "a", "f", "a", "r", "i">>,
                               <<"F", "i", "r", "e", "f", "o", "x">>,
                               <<"M", "i", "c", "r", "o", "s", "o", "f", "t", " ", "E", "d", "g", "e">>},
       title_patterns |-> {<<"M", "e", "e", "t", " ", "-">>,
                            <<"G", "o", "o", "g", "l", "e", " ", "M", "e", "e", "t">>,
                            <<"m", "e", "e", "t", ".", "g", "o", "o", "g", "l", "e", ".", "c", "o", "m">>},
       platform |-> "GoogleMeet"],
      [app_name_contains |-> {<<"M", "i", "c", "r", "o", "s", "o", "f", "t", " ", "T", "e", "a", "m", "s">>,
                               <<"T", "e", "a", "m", "s">>},
       title_patterns |-> {<<"M", "e", "e", "t", "i", "n", "g">>,
                            <<"|", " ", "M", "i", "c", "r", "o", "s", "o", "f", "t", " ", "T", "e", "a", "m", "s">>},
       platform |-> "Teams"],
      [app_name_contains |-> {<<"S", "l", "a", "c", "k">>},
       title_patterns |-> {<<"H", "u", "d", "d", "l", "e">>,
                            <<"C", "a", "l", "l">>},
       platform |-> "Slack"],
      [app_name_contains |-> {<<"D", "i", "s", "c", "o", "r", "d">>},
       title_patterns |-> {<<"V", "o", "i", "c", "e", " ", "C", "o", "n", "n", "e", "c", "t", "e", "d">>,
                            <<"V", "i", "d", "e", "o", " ", "C", "a", "l", "l">>},
       platform |-> "Discord"],
      [app_name_contains |-> {<<"F", "a", "c", "e", "T", "i", "m", "e">>},
       title_patterns |-> {<<"F", "a", "c", "e", "T", "i", "m", "e">>},
       platform |-> "FaceTime"],
      [app_name_contains |-> {<<"W", "e", "b", "e", "x">>,
                               <<"C", "i", "s", "c", "o", " ", "W", "e", "b", "e", "x">>},
       title_patterns |-> {<<"M", "e", "e", "t", "i", "n", "g">>,
                            <<"W", "e", "b", "e", "x">>},
       platform |-> "Webex"],
      [app_name_contains |-> {<<"A", "r", "o", "u", "n", "d">>},
       title_patterns |-> {<<"A", "r", "o", "u", "n", "d">>},
       platform |-> "Around"],
      [app_name_contains |-> {<<"L", "o", "o", "m">>},
       title_patterns |-> {<<"R", "e", "c", "o", "r", "d", "i", "n", "g">>,
                            <<"L", "o", "o", "m">>},
       platform |-> "Loom"]
    >>

\* meeting.rs:317-319
IsBrowserNever(app_name) == FALSE

IsBrowser(app_name) ==
    ContainsAny(app_name, { <<"c","h","r","o","m","e">>, <<"a","r","c">>,
                            <<"s","a","f","a","r","i">>, <<"f","i","r","e","f","o","x">>,
                            <<"e","d","g","e">> })

\* meeting.rs:300-303
AppMatches(pattern, app_name) ==
    \E p \in pattern.app_name_contains : Contains(app_name, ToLowercase(p))

\* meeting.rs:310-313
TitleMatches(pattern, title) ==
    \E p \in pattern.title_patterns : Contains(title, ToLowercase(p))

\* meeting.rs:298-326  the loop over MEETING_APPS from entry i on
RECURSIVE DetectFrom(_, _)
DetectFrom(i, w) ==
    IF i > Len(MEETING_APPS) THEN None
    ELSE LET pattern == MEETING_APPS[i]
             app_name == ToLowercase(w.app_name)
             title == ToLowercase(w.title)
             app_matches == AppMatches(pattern, app_name)
         IN  IF ~app_matches THEN DetectFrom(i + 1, w)
             ELSE IF TitleMatches(pattern, title) \/ (~IsBrowser(app_name) /\ app_matches)
                  THEN Some([platform |-> pattern.platform, title |-> Some(w.title)])
                  ELSE DetectFrom(i + 1, w)

\* meeting.rs:294-327
DetectMeeting(w) == DetectFrom(1, w)

\* Windows as window.rs reports them; the detector reads app_name and title.
ZoomWindow == [app_name |-> <<"z", "o", "o", "m", ".", "u", "s">>,
    title |-> <<"Z", "o", "o", "m", " ", "M", "e", "e", "t", "i", "n", "g">>]

MeetWindow == [app_name |-> <<"G", "o", "o", "g", "l", "e", " ", "C", "h", "r", "o", "m", "e">>,
    title |-> <<"M", "e", "e", "t", " ", "-", " ", "a">>]

BrowserWindow == [app_name |-> <<"G", "o", "o", "g", "l", "e", " ", "C", "h", "r", "o", "m", "e">>,
    title |-> <<"G", "i", "t", "H", "u", "b">>]

EditorWindow == [app_name |-> <<"V", "i", "s", "u", "a", "l", " ", "S", "t", "u", "d", "i", "o", " ", "C", "o", "d", "e">>,
    title |-> <<"m", "a", "i", "n", ".", "r", "s">>]

ZoomIdleWindow == [app_name |-> <<"Z", "o", "o", "m">>,
    title |-> <<"S", "e", "t", "t", "i", "n", "g", "s">>]

WebexTeamsWindow == [app_name |-> <<"C", "i", "s", "c", "o", " ", "W", "e", "b", "e", "x", " ", "T", "e", "a", "m", "s">>,
    title |-> <<"C", "h", "a", "t">>]

EdgeTeamsWindow == [app_name |-> <<"M", "i", "c", "r", "o", "s", "o", "f", "t", " ", "E", "d", "g", "e">>,
    title |-> <<"M", "i", "c", "r", "o", "s", "o", "f", "t", " ", "T", "e", "a", "m", "s">>]

DetectWindows ==
    {ZoomWindow, MeetWindow, BrowserWindow, EditorWindow, ZoomIdleWindow,
     WebexTeamsWindow, EdgeTeamsWindow}

\* detect_meeting is a pure function of the window: its results on the
\* model's windows, computed once.
Detections == [w \in DetectWindows |-> DetectMeeting(w)]

\* A reset that leaves the platform of the meeting that ended.
MeetingStateKeepsPlatform ==
    [in_meeting |-> FALSE, platform |-> Some("Zoom"), started_at |-> None, title |-> None]

\* meeting.rs:113-122  MeetingState::default()
MeetingStateDefault ==
    [in_meeting |-> FALSE, platform |-> None, started_at |-> None, title |-> None]

\* meeting.rs:190-198  MeetingDetector::new
MeetingNew(cfg) ==
    /\ meeting_config = cfg
    /\ meeting_state = MeetingStateDefault
    /\ potential_meeting_start = None
    /\ last_meeting_activity = None
    /\ emitted_start = FALSE
    /\ last_window = None
    /\ events = << >>

\* (Utc::now() - start).num_minutes()
NumMinutes(later, earlier) == (later - earlier) \div (60 * SubSec)

LongEnoughAlways(elapsed) == TRUE

\* meeting.rs:214
LongEnough(elapsed) == AsSecs(elapsed) >= meeting_config.min_meeting_duration_secs

\* A grace period that never runs out.
GraceExpiredNever(elapsed) == FALSE

GraceExpiredStrict(elapsed) == AsSecs(elapsed) > meeting_config.grace_period_secs

\* meeting.rs:258
GraceExpired(elapsed) == AsSecs(elapsed) >= meeting_config.grace_period_secs

\* meeting.rs:208-240  check_window on a window in which a meeting is detected
CheckWindowMatching(t, detected) ==
    /\ last_meeting_activity' = Some(t)
    /\ IF IsSome(potential_meeting_start)
       THEN LET elapsed == DurationSince(t, Unwrap(potential_meeting_start))
                started == t - AsSecs(elapsed) * SubSec
            IN  IF ~meeting_state.in_meeting /\ LongEnough(elapsed)
                THEN /\ meeting_state' = [in_meeting |-> TRUE,
                                          platform |-> Some(detected.platform),
                                          started_at |-> Some(started),
                                          title |-> detected.title]
                     /\ emitted_start' = TRUE
                     /\ events' = << [event_type |-> "MeetingStart",
                                      platform |-> detected.platform,
                                      title |-> detected.title,
                                      duration_minutes |-> None,
                                      timestamp |-> started] >>
                     /\ UNCHANGED potential_meeting_start
                ELSE /\ events' = << >>
                     /\ UNCHANGED <<meeting_state, emitted_start, potential_meeting_start>>
       ELSE /\ potential_meeting_start' = Some(t)
            /\ events' = << >>
            /\ UNCHANGED <<meeting_state, emitted_start>>

\* meeting.rs:256-291  check_meeting_end at instant t
CheckMeetingEnd(t) ==
    IF IsSome(last_meeting_activity)
       /\ GraceExpired(DurationSince(t, Unwrap(last_meeting_activity)))
    THEN /\ events' =
              (IF meeting_state.in_meeting /\ emitted_start
               THEN << [event_type |-> "MeetingEnd",
                        platform |-> IF IsSome(meeting_state.platform)
                                     THEN Unwrap(meeting_state.platform) ELSE "Unknown",
                        title |-> meeting_state.title,
                        duration_minutes |->
                            IF IsSome(meeting_state.started_at)
                            THEN Some(NumMinutes(t, Unwrap(meeting_state.started_at)))
                            ELSE None,
                        timestamp |-> t] >>
               ELSE << >>)
         /\ meeting_state' = MeetingStateDefault
         /\ potential_meeting_start' = None
         /\ last_meeting_activity' = None
         /\ emitted_start' = FALSE
    ELSE /\ events' = << >>
         /\ UNCHANGED <<meeting_state, potential_meeting_start, last_meeting_activity,
                        emitted_start>>

\* meeting.rs:201-253  check_window(w) called at instant t; w is Option<&WindowInfo>
CheckWindow(t, w) ==
    /\ now' = t
    /\ last_window' = w
    /\ IF IsSome(w) /\ IsSome(Detections[Unwrap(w)])
       THEN CheckWindowMatching(t, Unwrap(Detections[Unwrap(w)]))
       ELSE CheckMeetingEnd(t)
    /\ UNCHANGED meeting_config

\* A detector that never reports a meeting.
InMeetingNever == FALSE

\* meeting.rs:335-337
InMeeting == meeting_state.in_meeting

(***************************************************************************)
(* The orchestrator: the tick loop of main.rs:179-358 and the request      *)
(* handlers of api.rs, over the Mutexes of AppState (main.rs:42-51).       *)
(* A step is one lock operation, or the work done under the locks held     *)
(* together with their release.                                            *)
(***************************************************************************)
Locks ==
    {"store", "dedup", "idle_detector", "file_watcher", "window_tracker",
     "clipboard_tracker", "hotkey_manager", "meeting_detector"}

\* Mutex::try_lock() succeeds / Mutex::lock() returns only on a free lock
Free(l) == locks[l] = "free"

\* the locks after `who` takes the free locks ls
Acquired(ls, who) == [l \in Locks |-> IF l \in ls THEN who ELSE locks[l]]

\* the locks after the guards of ls are dropped
Released(ls) == [l \in Locks |-> IF l \in ls THEN "free" ELSE locks[l]]

\* main.rs:83-175  the state the loop starts from: `present` are the optional
\* collaborators that were configured (the others are None in AppState)
LoopNew(present, handlers) ==
    /\ tick_pc = <<"await", "">>
    /\ locks = [l \in Locks |-> "free"]
    /\ IDLE_COUNTER = 0
    /\ ticks = 0
    /\ trackers = present
    /\ tracker_last_window = None
    /\ current_window = None
    /\ pending = << >>
    /\ handler_pc = [h \in handlers |-> <<"none", NoSignal>>]
    /\ synced = FALSE
    /\ idle_check_skipped = FALSE
    /\ stored = {}
    /\ unstored = {}
    /\ unrecorded = {}

\* The sections of a tick that record activity for a signal (main.rs:214-248,
\* 261-278, 281-301, 303-333): the lock they hold meanwhile, the activity they
\* record, and the position the loop continues at after storing the event.
SignalSections == {"window", "meeting_event", "clipboard", "hotkey"}

SectionLock(sec) ==
    CASE sec = "window" -> "window_tracker"
      [] sec = "meeting_event" -> "meeting_detector"
      [] sec = "clipboard" -> "clipboard_tracker"
      [] sec = "hotkey" -> "hotkey_manager"

SectionActivity(sec) ==
    CASE sec = "window" ->
             [activity_type |-> "window_change",
              app_name |-> Some(Unwrap(tracker_last_window).app_name)]
      [] sec = "meeting_event" -> [activity_type |-> "meeting", app_name |-> None]
      [] sec = "clipboard" -> [activity_type |-> "clipboard", app_name |-> None]
      [] sec = "hotkey" -> [activity_type |-> "hotkey", app_name |-> None]

SectionNext(sec) ==
    CASE sec = "window" -> <<"meeting", "">>
      [] sec = "meeting_event" -> <<"meeting", "events">>
      [] sec = "clipboard" -> <<"hotkey", "">>
      [] sec = "hotkey" -> <<"idle", "">>

\* main.rs:181-183  ticker.tick().await: the first tick completes at once,
\* the later ones a second apart
TickAwait(horizon) ==
    /\ tick_pc = <<"await", "">>
    /\ ticks < horizon
    /\ ticks' = ticks + 1
    /\ now' = (IF ticks = 0 THEN now ELSE now + SubSec)
    /\ tick_pc' = <<"files", "">>
    /\ synced' = FALSE
    /\ UNCHANGED <<locks, IDLE_COUNTER, trackers, tracker_last_window, current_window,
                   pending, handler_pc, idle_check_skipped>>
    /\ UNCHANGED <<dedupVars, idleVars, meetingVars>>
    /\ UNCHANGED <<stored, unstored, unrecorded>>

\* main.rs:185-189  file events: try_lock the watcher, poll it
TickFiles ==
    /\ tick_pc = <<"files", "">>
    /\ \/ /\ Free("file_watcher") /\ "file_watcher" \in trackers
          /\ locks' = Acquired({"file_watcher"}, "tick")
          /\ tick_pc' = <<"files", "store">>
       \/ /\ tick_pc' = <<"window", "">>
          /\ UNCHANGED locks
    /\ UNCHANGED <<IDLE_COUNTER, ticks, trackers, tracker_last_window, current_window,
                   pending, handler_pc, synced, idle_check_skipped>>
    /\ UNCHANGED <<now, dedupVars, idleVars, meetingVars>>
    /\ UNCHANGED <<stored, unstored, unrecorded>>

\* main.rs:214-217, 238-247  window section: try_lock the tracker and ask it
\* for a window change (window.rs:118-161); `seen` is the active window it
\* reads, None when the probe gives nothing or the poll interval has not passed
TickWindow(seen) ==
    /\ tick_pc = <<"window", "">>
    /\ IF Free("window_tracker") /\ "window_tracker" \in trackers
       THEN IF seen # None /\ seen # tracker_last_window
            THEN /\ tracker_last_window' = seen
                 /\ locks' = Acquired({"window_tracker"}, "tick")
                 /\ tick_pc' = <<"window", "idle">>
                 /\ UNCHANGED current_window
            ELSE /\ current_window' = tracker_last_window
                 /\ tick_pc' = <<"meeting", "">>
                 /\ UNCHANGED <<tracker_last_window, locks>>
       ELSE /\ current_window' = None
            /\ tick_pc' = <<"meeting", "">>
            /\ UNCHANGED <<tracker_last_window, locks>>
    /\ UNCHANGED <<IDLE_COUNTER, ticks, trackers, pending, handler_pc, synced,
                   idle_check_skipped>>
    /\ UNCHANGED <<now, dedupVars, idleVars, meetingVars>>
    /\ UNCHANGED <<stored, unstored, unrecorded>>

\* main.rs:281-284, 303-306  clipboard and hotkey sections: try_lock the
\* collaborator and ask it for a signal
TickProbe(sec, signalled) ==
    /\ sec \in {"clipboard", "hotkey"}
    /\ tick_pc = <<sec, "">>
    /\ IF Free(SectionLock(sec)) /\ SectionLock(sec) \in trackers /\ signalled
       THEN /\ locks' = Acquired({SectionLock(sec)}, "tick")
            /\ tick_pc' = <<sec, "idle">>
       ELSE /\ tick_pc' = SectionNext(sec)
            /\ UNCHANGED locks
    /\ UNCHANGED <<IDLE_COUNTER, ticks, trackers, tracker_last_window, current_window,
                   pending, handler_pc, synced, idle_check_skipped>>
    /\ UNCHANGED <<now, dedupVars, idleVars, meetingVars>>
    /\ UNCHANGED <<stored, unstored, unrecorded>>

\* main.rs:221, 263, 286, 311  idle_detector.try_lock() for a signal
TickSignalTryIdle(sec) ==
    /\ sec \in SignalSections
    /\ tick_pc = <<sec, "idle">>
    /\ IF Free("idle_detector")
       THEN /\ locks' = Acquired({"idle_detector"}, "tick")
            /\ tick_pc' = <<sec, "record">>
            /\ UNCHANGED unrecorded
       ELSE /\ tick_pc' = <<sec, "store">>
            /\ unrecorded' = unrecorded \cup {sec}
            /\ UNCHANGED locks
    /\ UNCHANGED <<IDLE_COUNTER, ticks, trackers, tracker_last_window, current_window,
                   pending, handler_pc, synced, idle_check_skipped>>
    /\ UNCHANGED <<now, dedupVars, idleVars, meetingVars>>
    /\ UNCHANGED <<stored, unstored>>

\* main.rs:222, 264, 287, 312  record_activity under the idle detector's lock
TickSignalRecord(sec) ==
    /\ sec \in SignalSections
    /\ tick_pc = <<sec, "record">>
    /\ RecordActivityWithApp(now, SectionActivity(sec).activity_type,
                             SectionActivity(sec).app_name)
    /\ locks' = Released({"idle_detector"})
    /\ tick_pc' = <<sec, "store">>
    /\ UNCHANGED <<IDLE_COUNTER, ticks, trackers, tracker_last_window, current_window,
                   pending, handler_pc, synced, idle_check_skipped>>
    /\ UNCHANGED <<dedupVars, meetingVars>>
    /\ UNCHANGED stored
    /\ unstored' = (IF ev' # None THEN unstored \cup {"state_change"} ELSE unstored)
    /\ unrecorded' = unrecorded \ {sec}

\* main.rs:190, 226, 268, 291, 316, 343  store.lock(), which waits for the lock
TickStoreLock(sec) ==
    /\ sec \in SignalSections \cup {"files", "idle"}
    /\ tick_pc = <<sec, "store">>
    /\ Free("store")
    /\ locks' = Acquired({"store"}, "tick")
    /\ tick_pc' = <<sec, "insert">>
    /\ UNCHANGED <<IDLE_COUNTER, ticks, trackers, tracker_last_window, current_window,
                   pending, handler_pc, synced, idle_check_skipped>>
    /\ UNCHANGED <<now, dedupVars, idleVars, meetingVars>>
    /\ UNCHANGED <<stored, unstored, unrecorded>>

\* main.rs:227-247, 269-278, 292-301, 317-332  insert_event (store.rs), then
\* the guards of the store and of the section's collaborator are dropped
TickSignalInsert(sec) ==
    /\ sec \in SignalSections
    /\ tick_pc = <<sec, "insert">>
    /\ locks' = (IF sec = "meeting_event" THEN Released({"store"})
                 ELSE Released({"store", SectionLock(sec)}))
    /\ pending' = (IF sec = "meeting_event" THEN Tail(pending) ELSE pending)
    /\ current_window' = (IF sec = "window" THEN tracker_last_window ELSE current_window)
    /\ tick_pc' = SectionNext(sec)
    /\ UNCHANGED <<IDLE_COUNTER, ticks, trackers, tracker_last_window, handler_pc, synced,
                   idle_check_skipped>>
    /\ UNCHANGED <<now, dedupVars, idleVars, meetingVars>>
    /\ stored' = stored \cup {sec}
    /\ unstored' = (IF sec = "meeting_event" /\ Tail(pending) = << >>
                     THEN unstored \ {"meeting_event"} ELSE unstored)
    /\ UNCHANGED unrecorded

\* main.rs:191-209  the polled file events are stored, both guards dropped
TickFilesInsert ==
    /\ tick_pc = <<"files", "insert">>
    /\ locks' = Released({"store", "file_watcher"})
    /\ tick_pc' = <<"window", "">>
    /\ UNCHANGED <<IDLE_COUNTER, ticks, trackers, tracker_last_window, current_window,
                   pending, handler_pc, synced, idle_check_skipped>>
    /\ UNCHANGED <<now, dedupVars, idleVars, meetingVars>>
    /\ stored' = stored \cup {"files"}
    /\ UNCHANGED <<unstored, unrecorded>>

\* main.rs:251-253  meeting section: try_lock the detector, check_window
TickMeeting ==
    /\ tick_pc = <<"meeting", "">>
    /\ IF Free("meeting_detector")
       THEN /\ CheckWindow(now, current_window)
            /\ pending' = events'
            /\ locks' = Acquired({"meeting_detector"}, "tick")
            /\ tick_pc' = <<"meeting", "idle">>
       ELSE /\ tick_pc' = <<"clipboard", "">>
            /\ UNCHANGED <<now, meetingVars, pending, locks>>
    /\ UNCHANGED <<IDLE_COUNTER, ticks, trackers, tracker_last_window, current_window,
                   handler_pc, synced, idle_check_skipped>>
    /\ UNCHANGED <<dedupVars, idleVars>>
    /\ UNCHANGED stored
    /\ unstored' = (IF Free("meeting_detector") /\ events' # << >>
                     THEN unstored \cup {"meeting_event"} ELSE unstored)
    /\ UNCHANGED unrecorded

\* main.rs:256  idle_detector.try_lock() for the meeting sync
TickMeetingTryIdle ==
    /\ tick_pc = <<"meeting", "idle">>
    /\ IF Free("idle_detector")
       THEN /\ locks' = Acquired({"idle_detector"}, "tick")
            /\ tick_pc' = <<"meeting", "sync">>
       ELSE /\ tick_pc' = <<"meeting", "events">>
            /\ UNCHANGED locks
    /\ UNCHANGED <<IDLE_COUNTER, ticks, trackers, tracker_last_window, current_window,
                   pending, handler_pc, synced, idle_check_skipped>>
    /\ UNCHANGED <<now, dedupVars, idleVars, meetingVars>>
    /\ UNCHANGED <<stored, unstored, unrecorded>>

\* main.rs:253, 257  idle.set_in_meeting(in_meeting)
TickMeetingSync ==
    /\ tick_pc = <<"meeting", "sync">>
    /\ SetInMeeting(InMeeting)
    /\ locks' = Released({"idle_detector"})
    /\ synced' = TRUE
    /\ tick_pc' = <<"meeting", "events">>
    /\ UNCHANGED <<IDLE_COUNTER, ticks, trackers, tracker_last_window, current_window,
                   pending, handler_pc, idle_check_skipped>>
    /\ UNCHANGED <<dedupVars, meetingVars>>
    /\ UNCHANGED <<stored, unstored, unrecorded>>

\* main.rs:260, 279  for event in meeting_events; the detector's guard is
\* dropped after the last one
TickMeetingEvents ==
    /\ tick_pc = <<"meeting", "events">>
    /\ IF pending = << >>
       THEN /\ locks' = Released({"meeting_detector"})
            /\ tick_pc' = <<"clipboard", "">>
       ELSE /\ tick_pc' = <<"meeting_event", "idle">>
            /\ UNCHANGED locks
    /\ UNCHANGED <<IDLE_COUNTER, ticks, trackers, tracker_last_window, current_window,
                   pending, handler_pc, synced, idle_check_skipped>>
    /\ UNCHANGED <<now, dedupVars, idleVars, meetingVars>>
    /\ UNCHANGED <<stored, unstored, unrecorded>>

\* main.rs:336-341  IDLE_COUNTER += 1; on reaching 10 it is reset and the
\* idle detector try_locked
TickIdle ==
    /\ tick_pc = <<"idle", "">>
    /\ IF IDLE_COUNTER + 1 >= 10
       THEN /\ IDLE_COUNTER' = 0
            /\ IF Free("idle_detector")
               THEN /\ locks' = Acquired({"idle_detector"}, "tick")
                    /\ tick_pc' = <<"idle", "check">>
                    /\ UNCHANGED idle_check_skipped
               ELSE /\ tick_pc' = <<"await", "">>
                    /\ idle_check_skipped' = TRUE
                    /\ UNCHANGED locks
       ELSE /\ IDLE_COUNTER' = IDLE_COUNTER + 1
            /\ tick_pc' = <<"await", "">>
            /\ UNCHANGED <<locks, idle_check_skipped>>
    /\ UNCHANGED <<ticks, trackers, tracker_last_window, current_window, pending,
                   handler_pc, synced>>
    /\ UNCHANGED <<now, dedupVars, idleVars, meetingVars>>
    /\ UNCHANGED <<stored, unstored, unrecorded>>

\* main.rs:342  idle.check_idle() under the idle detector's lock
TickIdleCheck(system_idle) ==
    /\ tick_pc = <<"idle", "check">>
    /\ CheckIdle(now, system_idle)
    /\ idle_check_skipped' = FALSE
    /\ IF ev' # None
       THEN /\ tick_pc' = <<"idle", "store">>
            /\ UNCHANGED locks
       ELSE /\ tick_pc' = <<"await", "">>
            /\ locks' = Released({"idle_detector"})
    /\ UNCHANGED <<IDLE_COUNTER, ticks, trackers, tracker_last_window, current_window,
                   pending, handler_pc, synced>>
    /\ UNCHANGED <<dedupVars, meetingVars>>
    /\ UNCHANGED stored
    /\ unstored' = (IF ev' # None THEN unstored \cup {"idle_state_change"} ELSE unstored)
    /\ UNCHANGED unrecorded

\* main.rs:344-353  the state change is stored, both guards dropped
TickIdleInsert ==
    /\ tick_pc = <<"idle", "insert">>
    /\ locks' = Released({"store", "idle_detector"})
    /\ tick_pc' = <<"await", "">>
    /\ UNCHANGED <<IDLE_COUNTER, ticks, trackers, tracker_last_window, current_window,
                   pending, handler_pc, synced, idle_check_skipped>>
    /\ UNCHANGED <<now, dedupVars, idleVars, meetingVars>>
    /\ stored' = stored \cup {"idle"}
    /\ unstored' = unstored \ {"idle_state_change"}
    /\ UNCHANGED unrecorded

\* Handlers that take one lock and only read under it: get_session_info
\* (api.rs:399-405) the idle detector's, get_events (api.rs:445-449) the
\* store's, add_watch_path (api.rs:291-304) the file watcher's.
ReaderLock(request) ==
    CASE request = "session_info" -> "idle_detector"
      [] request = "events" -> "store"
      [] request = "watch_path" -> "file_watcher"

\* where handler h is and the event of its request (api.rs:77, 158, 229)
HandlerAt(h) == handler_pc[h][1]

HandlerEvent(h) == handler_pc[h][2]

HandlerMoves(h, to, sig) == handler_pc' = [handler_pc EXCEPT ![h] = <<to, sig>>]

HandlerRead(h, request) ==
    /\ HandlerAt(h) = "none"
    /\ Free(ReaderLock(request))
    /\ locks' = Acquired({ReaderLock(request)}, h)
    /\ HandlerMoves(h, request, NoSignal)
    /\ UNCHANGED <<tick_pc, IDLE_COUNTER, ticks, trackers, tracker_last_window,
                   current_window, pending, synced, idle_check_skipped>>
    /\ UNCHANGED <<now, dedupVars, idleVars, meetingVars>>
    /\ UNCHANGED <<stored, unstored, unrecorded>>

HandlerReadDone(h, request) ==
    /\ HandlerAt(h) = request
    /\ locks' = Released({ReaderLock(request)})
    /\ HandlerMoves(h, "none", NoSignal)
    /\ UNCHANGED <<tick_pc, IDLE_COUNTER, ticks, trackers, tracker_last_window,
                   current_window, pending, synced, idle_check_skipped>>
    /\ UNCHANGED <<now, dedupVars, idleVars, meetingVars>>
    /\ UNCHANGED <<stored, unstored, unrecorded>>

\* the repeat count of the event's entry is below the bound of the model
BelowMaxCount(sig) == KeyOf(sig) \in DOMAIN cache => cache[KeyOf(sig)].count < MaxCount

\* the events recorded and those of the requests in flight that may still be
\* recorded are fewer than the bound of the model
BelowMaxEvents ==
    session_event_count
      + Cardinality({g \in DOMAIN handler_pc :
                       HandlerAt(g) \in {"ingest_dedup", "ingest_accepted", "ingest_idle"}})
      < MaxEvents

\* api.rs:50-53, 79  ingest_shell_event receives the event: state.dedup.lock()
IngestLockDedup(h, sig) ==
    /\ HandlerAt(h) = "none"
    /\ BelowMaxCount(sig)
    /\ BelowMaxEvents
    /\ Free("dedup")
    /\ locks' = Acquired({"dedup"}, h)
    /\ HandlerMoves(h, "ingest_dedup", sig)
    /\ UNCHANGED <<tick_pc, IDLE_COUNTER, ticks, trackers, tracker_last_window,
                   current_window, pending, synced, idle_check_skipped>>
    /\ UNCHANGED <<now, dedupVars, idleVars, meetingVars>>
    /\ UNCHANGED <<stored, unstored, unrecorded>>

\* A handler that goes on with a duplicate as with an accepted signal.
IngestDedupAcceptsAll(h) ==
    /\ HandlerAt(h) = "ingest_dedup"
    /\ ShouldProcess(HandlerEvent(h), now)
    /\ locks' = Released({"dedup"})
    /\ HandlerMoves(h, "ingest_accepted", HandlerEvent(h))
    /\ UNCHANGED <<tick_pc, IDLE_COUNTER, ticks, trackers, tracker_last_window,
                   current_window, pending, synced, idle_check_skipped>>
    /\ UNCHANGED <<idleVars, meetingVars>>
    /\ UNCHANGED <<stored, unstored, unrecorded>>

\* api.rs:78-88, 159-169, 230-239  should_process; a duplicate returns at once
IngestDedup(h) ==
    /\ HandlerAt(h) = "ingest_dedup"
    /\ ShouldProcess(HandlerEvent(h), now)
    /\ locks' = Released({"dedup"})
    /\ IF ret' THEN HandlerMoves(h, "ingest_accepted", HandlerEvent(h))
               ELSE HandlerMoves(h, "none", NoSignal)
    /\ UNCHANGED <<tick_pc, IDLE_COUNTER, ticks, trackers, tracker_last_window,
                   current_window, pending, synced, idle_check_skipped>>
    /\ UNCHANGED <<idleVars, meetingVars>>
    /\ UNCHANGED <<stored, unstored, unrecorded>>

\* api.rs:91  state.idle_detector.lock()
IngestLockIdle(h) ==
    /\ HandlerAt(h) = "ingest_accepted"
    /\ Free("idle_detector")
    /\ locks' = Acquired({"idle_detector"}, h)
    /\ HandlerMoves(h, "ingest_idle", HandlerEvent(h))
    /\ UNCHANGED <<tick_pc, IDLE_COUNTER, ticks, trackers, tracker_last_window,
                   current_window, pending, synced, idle_check_skipped>>
    /\ UNCHANGED <<now, dedupVars, idleVars, meetingVars>>
    /\ UNCHANGED <<stored, unstored, unrecorded>>

\* A handler that does not drop the idle detector's guard after record_activity.
IngestRecordKeepsGuard(h) ==
    /\ HandlerAt(h) = "ingest_idle"
    /\ RecordActivityWithApp(now, HandlerEvent(h).kind, None)
    /\ UNCHANGED locks
    /\ HandlerMoves(h, "ingest_recorded", HandlerEvent(h))
    /\ UNCHANGED <<tick_pc, IDLE_COUNTER, ticks, trackers, tracker_last_window,
                   current_window, pending, synced, idle_check_skipped>>
    /\ UNCHANGED <<dedupVars, meetingVars>>
    /\ UNCHANGED <<stored, unstored, unrecorded>>

\* api.rs:92-93, 172-173, 242-243  idle.record_activity("shell" / "editor" /
\* "filesystem"), by the handler that received the signal
IngestRecord(h) ==
    /\ HandlerAt(h) = "ingest_idle"
    /\ RecordActivityWithApp(now, HandlerEvent(h).kind, None)
    /\ locks' = Released({"idle_detector"})
    /\ HandlerMoves(h, "ingest_recorded", HandlerEvent(h))
    /\ UNCHANGED <<tick_pc, IDLE_COUNTER, ticks, trackers, tracker_last_window,
                   current_window, pending, synced, idle_check_skipped>>
    /\ UNCHANGED <<dedupVars, meetingVars>>
    /\ UNCHANGED <<stored, unstored, unrecorded>>

\* api.rs:115  state.store.lock()
IngestLockStore(h) ==
    /\ HandlerAt(h) = "ingest_recorded"
    /\ Free("store")
    /\ locks' = Acquired({"store"}, h)
    /\ HandlerMoves(h, "ingest_store", HandlerEvent(h))
    /\ UNCHANGED <<tick_pc, IDLE_COUNTER, ticks, trackers, tracker_last_window,
                   current_window, pending, synced, idle_check_skipped>>
    /\ UNCHANGED <<now, dedupVars, idleVars, meetingVars>>
    /\ UNCHANGED <<stored, unstored, unrecorded>>

\* api.rs:116-138  store.insert_event, the response
IngestInsert(h) ==
    /\ HandlerAt(h) = "ingest_store"
    /\ locks' = Released({"store"})
    /\ HandlerMoves(h, "none", NoSignal)
    /\ UNCHANGED <<tick_pc, IDLE_COUNTER, ticks, trackers, tracker_last_window,
                   current_window, pending, synced, idle_check_skipped>>
    /\ UNCHANGED <<now, dedupVars, idleVars, meetingVars>>
    /\ stored' = stored \cup {"ingest"}
    /\ UNCHANGED <<unstored, unrecorded>>

(***************************************************************************)
(* Specifications                                                          *)
(***************************************************************************)
\* The default configurations of main.rs:83,87; a component that a
\* specification does not exercise stays as constructed.
DedupDefault == [window |-> 2 * SubSec, max_entries |-> 10000, cleanup_interval |-> 60 * SubSec]

MeetingDefault == [min_meeting_duration_secs |-> 30, grace_period_secs |-> 60]

IdleDefault ==
    [idle_threshold |-> 300 * SubSec, session_end_threshold |-> 1800 * SubSec,
     use_system_idle |-> TRUE, ignore_idle_in_meetings |-> TRUE]

\* Configurations under capacity pressure: small caches, no sweep in the horizon.
CapConfigs ==
    { [window |-> 1, max_entries |-> m, cleanup_interval |-> 60] : m \in {1, 4} }

\* Configurations for the sweep: a large cache, short window and interval.
SweepConfigs ==
    { [window |-> 1, max_entries |-> 10000, cleanup_interval |-> 2],
      [window |-> 1, max_entries |-> 10000, cleanup_interval |-> 3],
      [window |-> 2, max_entries |-> 10000, cleanup_interval |-> 3] }

\* Thresholds of one and two clock units, shortened as the tests of
\* idle.rs:530-537 shorten them.  Both flags on is IdleConfig::default(); a
\* probe that reads None makes use_system_idle behave as if it were off.
IdleConfigs ==
    { [idle_threshold |-> 1, session_end_threshold |-> 2,
       use_system_idle |-> b, ignore_idle_in_meetings |-> b] : b \in BOOLEAN }

\* The same thresholds with use_system_idle off, as in the tests of idle.rs.
NoProbeConfigs ==
    { [idle_threshold |-> 1, session_end_threshold |-> 2,
       use_system_idle |-> FALSE, ignore_idle_in_meetings |-> g] : g \in BOOLEAN }

\* The readings of get_system_idle_time() (idle.rs:205-239)
SystemIdleReadings == {None} \cup {Some(d) : d \in 0..MaxSysIdle}

\* The calls the daemon makes: api.rs:92, main.rs:221
Activities ==
    { [activity_type |-> "shell", app_name |-> None],
      [activity_type |-> "window_change", app_name |-> Some(<<"z","o","o","m",".","u","s">>)] }

\* Meeting thresholds of one and two seconds, next to MeetingConfig::default().
MeetingShort == [min_meeting_duration_secs |-> 1, grace_period_secs |-> 2]

MeetingConfigs == {MeetingShort, MeetingDefault}

\* The windows the tick loop passes to check_window (main.rs:252-254): under
\* the short thresholds any of them or none, under the defaults a Zoom
\* meeting or none.
WindowsSeen ==
    IF meeting_config = MeetingDefault THEN {Some(ZoomWindow), None}
    ELSE {None} \cup {Some(w) : w \in DetectWindows}

\* The instants of the calls: under the short thresholds any instant of the
\* horizon, under the defaults one call per second as the ticker of
\* main.rs:181 schedules them.
CheckInstants ==
    IF meeting_config = MeetingDefault
    THEN {t \in {now + SubSec} : t <= MaxTicks * SubSec}
    ELSE now..MaxTimeMeeting

InitDedup == now = 0 /\ (\E cfg \in CapConfigs : DedupNew(cfg)) /\ IdleNew(IdleDefault) /\ MeetingNew(MeetingDefault) /\ LoopNew({}, {})

InitSweep == now = 0 /\ (\E cfg \in SweepConfigs : DedupNew(cfg)) /\ IdleNew(IdleDefault) /\ MeetingNew(MeetingDefault) /\ LoopNew({}, {})

InitIdle == now = 0 /\ DedupNew(DedupDefault) /\ (\E cfg \in IdleConfigs : IdleNew(cfg)) /\ MeetingNew(MeetingDefault) /\ LoopNew({}, {})

InitIdleNoProbe ==
    now = 0 /\ DedupNew(DedupDefault) /\ (\E cfg \in NoProbeConfigs : IdleNew(cfg))
            /\ MeetingNew(MeetingDefault) /\ LoopNew({}, {})

CallCap ==
    /\ \E sig \in CapSignals : \E t \in now..MaxTimeCap : ShouldProcess(sig, t)
    /\ UNCHANGED <<idleVars, meetingVars, loopVars>>

CallSweep ==
    /\ \E sig \in SweepSignals : \E t \in now..MaxTimeSweep : ShouldProcess(sig, t)
    /\ UNCHANGED <<idleVars, meetingVars, loopVars>>

\* The probe's readings stand in for elapsed time, so a detector that
\* consults the probe is followed over a shorter horizon.
IdleHorizon == IF idle_config.use_system_idle THEN MaxTimeProbe ELSE MaxTimeIdle

CallRecordActivity ==
    /\ \E t \in now..IdleHorizon : \E a \in Activities :
           RecordActivityWithApp(t, a.activity_type, a.app_name)
    /\ UNCHANGED <<dedupVars, meetingVars, loopVars>>

CallCheckIdle ==
    /\ \E t \in now..IdleHorizon : \E system_idle \in SystemIdleReadings :
           CheckIdle(t, system_idle)
    /\ UNCHANGED <<dedupVars, meetingVars, loopVars>>

CallSetInMeeting ==
    /\ \E flag \in BOOLEAN : SetInMeeting(flag)
    /\ UNCHANGED <<dedupVars, meetingVars, loopVars>>

NextDedup == CallCap

NextSweep == CallSweep

\* A deduplicator whose entries expire inside the horizon: a window of one
\* clock unit and a sweep every two.
InitExpiry ==
    now = 0 /\ DedupNew([window |-> 1, max_entries |-> 10000, cleanup_interval |-> 2])
            /\ IdleNew(IdleDefault) /\ MeetingNew(MeetingDefault) /\ LoopNew({}, {})

CallExpiry ==
    /\ \E sig \in ExpirySignals : \E t \in now..MaxTimeSweep : ShouldProcess(sig, t)
    /\ UNCHANGED <<idleVars, meetingVars, loopVars>>

NextExpiry == CallExpiry

InitMeeting ==
    now = 0 /\ DedupNew(DedupDefault) /\ IdleNew(IdleDefault)
            /\ (\E cfg \in MeetingConfigs : MeetingNew(cfg)) /\ LoopNew({}, {})

CallCheckWindow ==
    /\ \E t \in CheckInstants : \E w \in WindowsSeen : CheckWindow(t, w)
    /\ UNCHANGED <<dedupVars, idleVars, loopVars>>

NextMeeting == CallCheckWindow

\* Thresholds of 2 s and 12 s for the loop, whose check_idle runs every 10 ticks.
LoopIdleConfig ==
    [idle_threshold |-> 2 * SubSec, session_end_threshold |-> 12 * SubSec,
     use_system_idle |-> FALSE, ignore_idle_in_meetings |-> TRUE]

\* main.rs:97-161  which optional collaborators were configured: none, the
\* file watcher with the window tracker, or the clipboard tracker with the
\* hotkey manager
TrackerSets ==
    { {}, {"file_watcher", "window_tracker"}, {"clipboard_tracker", "hotkey_manager"} }

\* A loop without a window tracker is followed for MaxQuietTicks ticks until
\* the first activity is recorded, and for MaxBusyTicks ticks otherwise.
LoopHorizon ==
    IF "window_tracker" \notin trackers /\ session_event_count = 0
    THEN MaxQuietTicks ELSE MaxBusyTicks

\* The active window the tracker's probe reads (window.rs:164-174)
ActiveWindows == {None, Some(ZoomWindow), Some(EditorWindow)}

\* The shell event the ingest handler receives next to the loop (api.rs:50-53)
IngestSignals == {ShellSignal(<<"l", "s">>, 0)}

\* The events the three ingest handlers receive (api.rs:50-53, 153-156, 224-227)
HandlerSignals ==
    { ShellSignal(<<"l", "s">>, 0), EditorSignal("save", <<"a">>),
      FilesystemSignal("save", <<"a">>) }

\* Time passes between two steps of a request handler, up to MaxTimeIngest.
TimePasses ==
    /\ \E t \in (now + 1)..MaxTimeIngest : now' = t
    /\ UNCHANGED <<dedupVars, idleVars, meetingVars, loopVars>>

\* The ingest handlers alone, one request at a time, the loop not started.
InitIngest ==
    /\ now = 0
    /\ DedupNew(DedupDefault)
    /\ IdleNew(LoopIdleConfig)
    /\ MeetingNew(MeetingShort)
    /\ LoopNew({}, {"handler"})

NextIngest ==
    \/ TimePasses
    \/ \E h \in DOMAIN handler_pc : \E sig \in HandlerSignals : IngestLockDedup(h, sig)
    \/ \E h \in DOMAIN handler_pc : IngestDedup(h)
    \/ \E h \in DOMAIN handler_pc : IngestLockIdle(h)
    \/ \E h \in DOMAIN handler_pc : IngestRecord(h)
    \/ \E h \in DOMAIN handler_pc : IngestLockStore(h)
    \/ \E h \in DOMAIN handler_pc : IngestInsert(h)

\* Two requests in flight at once: axum serves each request on its own task
\* (main.rs:396-434), all over the one AppState.
InitHandlers ==
    /\ now = 0
    /\ DedupNew(DedupDefault)
    /\ IdleNew(LoopIdleConfig)
    /\ MeetingNew(MeetingShort)
    /\ LoopNew({}, {"handler", "handler_2"})

\* The events two concurrent requests carry: the same shell command, or an
\* editor save (api.rs:50-53, 153-156).
ConcurrentSignals == { ShellSignal(<<"l", "s">>, 0), EditorSignal("save", <<"a">>) }

NextHandlers ==
    \/ TimePasses
    \/ \E h \in DOMAIN handler_pc : \E sig \in ConcurrentSignals : IngestLockDedup(h, sig)
    \/ \E h \in DOMAIN handler_pc : IngestDedup(h)
    \/ \E h \in DOMAIN handler_pc : IngestLockIdle(h)
    \/ \E h \in DOMAIN handler_pc : IngestRecord(h)
    \/ \E h \in DOMAIN handler_pc : IngestLockStore(h)
    \/ \E h \in DOMAIN handler_pc : IngestInsert(h)

ReadRequests == {"session_info", "events", "watch_path"}

InitLoop ==
    /\ now = 0
    /\ DedupNew(DedupDefault)
    /\ IdleNew(LoopIdleConfig)
    /\ MeetingNew(MeetingShort)
    /\ \E present \in TrackerSets : LoopNew(present, {"handler"})

NextLoop ==
    \/ TickAwait(LoopHorizon)
    \/ TickFiles
    \/ \E seen \in ActiveWindows : TickWindow(seen)
    \/ \E sec \in {"clipboard", "hotkey"} : \E signalled \in BOOLEAN : TickProbe(sec, signalled)
    \/ \E sec \in SignalSections : TickSignalTryIdle(sec)
    \/ \E sec \in SignalSections : TickSignalRecord(sec)
    \/ \E sec \in SignalSections \cup {"files", "idle"} : TickStoreLock(sec)
    \/ \E sec \in SignalSections : TickSignalInsert(sec)
    \/ TickFilesInsert
    \/ TickMeeting
    \/ TickMeetingTryIdle
    \/ TickMeetingSync
    \/ TickMeetingEvents
    \/ TickIdle
    \/ \E system_idle \in SystemIdleReadings : TickIdleCheck(system_idle)
    \/ TickIdleInsert
    \/ \E h \in DOMAIN handler_pc : \E request \in ReadRequests : HandlerRead(h, request)
    \/ \E h \in DOMAIN handler_pc : \E request \in ReadRequests : HandlerReadDone(h, request)
    \/ \E h \in DOMAIN handler_pc : \E sig \in IngestSignals : IngestLockDedup(h, sig)
    \/ \E h \in DOMAIN handler_pc : IngestDedup(h)
    \/ \E h \in DOMAIN handler_pc : IngestLockIdle(h)
    \/ \E h \in DOMAIN handler_pc : IngestRecord(h)
    \/ \E h \in DOMAIN handler_pc : IngestLockStore(h)
    \/ \E h \in DOMAIN handler_pc : IngestInsert(h)

\* The daemon with no optional collaborator configured (file_watcher,
\* window_tracker, clipboard_tracker and hotkey_manager are None, main.rs:96-150)
\* and two requests in flight.
InitContend ==
    /\ now = 0
    /\ DedupNew(DedupDefault)
    /\ IdleNew(LoopIdleConfig)
    /\ MeetingNew(MeetingShort)
    /\ LoopNew({}, {"handler", "handler_2"})

\* The read request that contends with the loop for the store (api.rs:445-449)
ContendRequests == {"events"}

\* main.rs:182-357  one step of the tick loop when no collaborator is configured
TickStep ==
    \/ TickAwait(LoopHorizon)
    \/ TickFiles
    \/ \E seen \in ActiveWindows : TickWindow(seen)
    \/ \E sec \in {"clipboard", "hotkey"} : \E signalled \in BOOLEAN : TickProbe(sec, signalled)
    \/ TickStoreLock("idle")
    \/ TickMeeting
    \/ TickMeetingTryIdle
    \/ TickMeetingSync
    \/ TickMeetingEvents
    \/ TickIdle
    \/ \E system_idle \in SystemIdleReadings : TickIdleCheck(system_idle)
    \/ TickIdleInsert

\* a handler's step while it holds a lock: the work under it and its release
HandlerWorks(h) ==
    \/ \E request \in ContendRequests : HandlerReadDone(h, request)
    \/ IngestDedup(h)
    \/ IngestRecord(h)
    \/ IngestInsert(h)

\* api.rs:91, 115  a handler in the middle of a request takes its next lock
HandlerAcquires(h) == IngestLockIdle(h) \/ IngestLockStore(h)

NextContend ==
    \/ TickAwait(LoopHorizon)
    \/ TickFiles
    \/ \E seen \in ActiveWindows : TickWindow(seen)
    \/ \E sec \in {"clipboard", "hotkey"} : \E signalled \in BOOLEAN : TickProbe(sec, signalled)
    \/ TickStoreLock("idle")
    \/ TickMeeting
    \/ TickMeetingTryIdle
    \/ TickMeetingSync
    \/ TickMeetingEvents
    \/ TickIdle
    \/ \E system_idle \in SystemIdleReadings : TickIdleCheck(system_idle)
    \/ TickIdleInsert
    \/ \E h \in DOMAIN handler_pc : \E request \in ContendRequests : HandlerRead(h, request)
    \/ \E h \in DOMAIN handler_pc : \E request \in ContendRequests : HandlerReadDone(h, request)
    \/ \E h \in DOMAIN handler_pc : \E sig \in IngestSignals : IngestLockDedup(h, sig)
    \/ \E h \in DOMAIN handler_pc : IngestDedup(h)
    \/ \E h \in DOMAIN handler_pc : IngestLockIdle(h)
    \/ \E h \in DOMAIN handler_pc : IngestRecord(h)
    \/ \E h \in DOMAIN handler_pc : IngestLockStore(h)
    \/ \E h \in DOMAIN handler_pc : IngestInsert(h)

\* main.rs:182-357  one step of the tick loop
LoopStep ==
    \/ TickAwait(LoopHorizon)
    \/ TickFiles
    \/ \E seen \in ActiveWindows : TickWindow(seen)
    \/ \E sec \in {"clipboard", "hotkey"} : \E signalled \in BOOLEAN : TickProbe(sec, signalled)
    \/ \E sec \in SignalSections : TickSignalTryIdle(sec)
    \/ \E sec \in SignalSections : TickSignalRecord(sec)
    \/ \E sec \in SignalSections \cup {"files", "idle"} : TickStoreLock(sec)
    \/ \E sec \in SignalSections : TickSignalInsert(sec)
    \/ TickFilesInsert
    \/ TickMeeting
    \/ TickMeetingTryIdle
    \/ TickMeetingSync
    \/ TickMeetingEvents
    \/ TickIdle
    \/ \E system_idle \in SystemIdleReadings : TickIdleCheck(system_idle)
    \/ TickIdleInsert

\* a step of the one handler of SpecLoop that ends with a lock released
LoopHandlerWorks ==
    \/ \E request \in ReadRequests : HandlerReadDone("handler", request)
    \/ IngestDedup("handler")
    \/ IngestRecord("handler")
    \/ IngestInsert("handler")

NextIdle == CallRecordActivity \/ CallCheckIdle \/ CallSetInMeeting

\* A client of the detector that also ends sessions (idle.rs:488).
CallEndSession ==
    /\ \E t \in now..IdleHorizon : EndSession(t)
    /\ UNCHANGED <<dedupVars, meetingVars, loopVars>>

NextSession == CallRecordActivity \/ CallCheckIdle \/ CallSetInMeeting \/ CallEndSession

vars == <<now, dedupVars, idleVars, meetingVars, loopVars>>

SpecDedup == InitDedup /\ [][NextDedup]_vars

SpecSweep == InitSweep /\ [][NextSweep]_vars

SpecExpiry == InitExpiry /\ [][NextExpiry]_vars

SpecIdle == InitIdle /\ [][NextIdle]_vars

SpecIdleNoProbe == InitIdleNoProbe /\ [][NextIdle]_vars

SpecSession == InitIdleNoProbe /\ [][NextSession]_vars

SpecMeeting == InitMeeting /\ [][NextMeeting]_vars

\* The loop calls check_window on every tick of its ticker (main.rs:181-184,
\* 251-254) for as long as the daemon runs.
SpecMeetingFair == SpecMeeting /\ WF_vars(CallCheckWindow)

SpecLoop == InitLoop /\ [][NextLoop]_vars

\* The loop's task runs on for as long as the daemon does and gets the
\* store's lock when it waits for it; a handler finishes the work it does
\* under a lock and acquires the locks it waits for.
SpecLoopFair ==
    /\ SpecLoop
    /\ SF_vars(LoopStep)
    /\ WF_vars(LoopHandlerWorks)
    /\ SF_vars(HandlerAcquires("handler"))

SpecIngest == InitIngest /\ [][NextIngest]_vars

SpecHandlers == InitHandlers /\ [][NextHandlers]_vars

SpecContend == InitContend /\ [][NextContend]_vars

\* The loop task and the handlers' tasks are scheduled (tokio's runtime runs
\* every ready task), and a handler parked in Mutex::lock() is woken when the
\* lock is released: the loop holds no lock while it awaits the ticker.
SpecContendFair ==
    /\ SpecContend
    /\ SF_vars(TickStep)
    /\ \A h \in {"handler", "handler_2"} : WF_vars(HandlerWorks(h)) /\ SF_vars(HandlerAcquires(h))

(***************************************************************************)
(* Properties of the deduplicator                                          *)
(***************************************************************************)
\* C1: on a fresh Deduplicator the first should_process(K) returns true, a
\* second should_process(K) less than one window later returns false, and a
\* call at least one window after K's last accepted call returns true.
C1_TrueFalseTrue ==
    [][ /\ (calls = 0 => ret')
        /\ (calls = 1 /\ arg' = arg /\ now' - accepted_at[arg] < config.window => ~ret')
        /\ (accepted_at[arg'] # Never /\ now' - accepted_at[arg'] >= config.window => ret')
      ]_vars

\* Three calls, all on one key, the third accepted at a later instant.
C1_Witness ==
    /\ calls = 3
    /\ ret
    /\ Cardinality({s \in Signals : accepted_at[s] # Never}) = 1
    /\ accepted_at[arg] = now
    /\ now >= config.window
    /\ cache[KeyOf(arg)] = [timestamp |-> now, count |-> 1]

\* C2: after any sequence of calls, including ones that fill the cache and
\* trigger batch eviction, should_process(K) returns false whenever K was last
\* accepted less than one window ago.
C2_NoDuplicateInsideWindow ==
    [][ accepted_at[arg'] # Never /\ now' - accepted_at[arg'] < config.window => ~ret' ]_vars

\* C3: keys that differ in source, event type or content (the same command
\* with different exit codes among them) are distinct, and the first
\* should_process of a signal returns true whatever was accepted before it.
C3_DistinctKeysIndependent ==
    /\ \A s1, s2 \in Signals : s1 # s2 => KeyOf(s1) # KeyOf(s2)
    /\ [][ accepted_at[arg'] = Never => ret' ]_vars

\* The same command with exit codes 0 and 1, both accepted at the same instant.
C3_Witness ==
    LET ok == ShellSignal(<<"l", "s">>, 0)
        failed == ShellSignal(<<"l", "s">>, 1)
    IN  /\ accepted_at[ok] = now
        /\ accepted_at[failed] = now
        /\ {KeyOf(ok), KeyOf(failed)} \subseteq DOMAIN cache
        /\ arg = failed
        /\ ret

\* C4: for every max_entries >= 1 the number of cache entries never exceeds
\* max_entries.
C4_CacheBounded == Cardinality(DOMAIN cache) <= config.max_entries


(***************************************************************************)
(* Properties of the idle detector                                         *)
(***************************************************************************)
\* Time since the last recorded activity at the instant of the call just made.
AppElapsed == now - last_activity

\* The elapsed time the last check_idle evaluated: the probe's reading when
\* it was consulted and reported longer than the time since the last activity.
EffectiveElapsed ==
    IF probe # None /\ Unwrap(probe) > AppElapsed THEN Unwrap(probe) ELSE AppElapsed

ByThresholds(elapsed) ==
    IF elapsed < idle_config.idle_threshold THEN "Active"
    ELSE IF elapsed < idle_config.session_end_threshold THEN "Idle"
    ELSE "Away"

InIdleBand(elapsed) ==
    idle_config.idle_threshold <= elapsed /\ elapsed < idle_config.session_end_threshold

MeetingSuppression == in_meeting /\ idle_config.ignore_idle_in_meetings

\* C5 as claimed: with the meeting flag off, the state check_idle() leaves is
\* a function of the time since the last recorded activity only.
C5_StateByTimeSinceActivity ==
    [][ op' = "check_idle" /\ ~in_meeting => current_state' = ByThresholds(AppElapsed') ]_vars

\* C5 as amended: with the meeting flag off, the state check_idle() leaves is
\* decided by the elapsed time it evaluates, which is the system idle probe's
\* reading when use_system_idle is on and the probe reports longer than the
\* time since the last recorded activity.
C5_StateByEffectiveElapsed ==
    [][ op' = "check_idle" /\ ~in_meeting => current_state' = ByThresholds(EffectiveElapsed') ]_vars

\* check_idle() went Idle on the probe's reading, before idle_threshold had
\* passed since the last recorded activity.
C5_Witness ==
    /\ op = "check_idle"
    /\ ~in_meeting
    /\ probe # None
    /\ AppElapsed < idle_config.idle_threshold
    /\ current_state = "Idle"
    /\ session_event_count > 0

\* C6 as claimed: once idle_threshold has passed since the last recorded
\* activity check_idle() goes Active -> Idle and returns the record, and
\* further calls while that time stays in [idle_threshold,
\* session_end_threshold) return nothing and change nothing.
C6_IdleOnceByTimeSinceActivity ==
    [][ op' = "check_idle" /\ InIdleBand(AppElapsed') =>
          /\ (current_state = "Active" =>
                 current_state' = "Idle" /\ ev' # None /\ current_idle_start' = Some(now'))
          /\ (current_state = "Idle" =>
                 ev' = None /\ UNCHANGED <<current_state, current_idle_start, idle_periods>>)
      ]_vars

\* C6 as amended: the same, for the elapsed time check_idle() evaluates and
\* with meeting suppression not in force.
C6_IdleOnce ==
    [][ op' = "check_idle" /\ ~MeetingSuppression /\ InIdleBand(EffectiveElapsed') =>
          /\ (current_state = "Active" =>
                 /\ current_state' = "Idle"
                 /\ ev' # None
                 /\ Unwrap(ev').previous_state = "active"
                 /\ Unwrap(ev').new_state = "idle"
                 /\ current_idle_start' = Some(now'))
          /\ (current_state = "Idle" =>
                 ev' = None /\ UNCHANGED <<current_state, current_idle_start, idle_periods>>)
      ]_vars

\* A later check_idle() found the detector Idle and returned nothing.
C6_Witness ==
    /\ op = "check_idle"
    /\ ev = None
    /\ current_state = "Idle"
    /\ current_idle_start # None
    /\ now > Unwrap(current_idle_start)
    /\ InIdleBand(EffectiveElapsed)

\* C7: the idle period opened on entering Idle is appended exactly once, by
\* the record_activity or the Idle -> Away transition that ends the Idle
\* state, as {instant Idle was entered, closing instant, their difference};
\* nothing is appended at any other time, and Idle is left in no other way.
C7_IdlePeriodAppendedOnce ==
    [][ /\ (current_state = "Active" /\ current_state' = "Idle" =>
               current_idle_start' = Some(now'))
        /\ (current_state = "Idle" /\ current_state' # "Idle" =>
               /\ op' = "record_activity" \/ current_state' = "Away"
               /\ current_idle_start # None
               /\ idle_periods' =
                    Append(idle_periods,
                           [started_at |-> Unwrap(current_idle_start),
                            ended_at |-> now',
                            duration_seconds |->
                                (now' - Unwrap(current_idle_start)) \div SubSec]))
        /\ (idle_periods' # idle_periods =>
               current_state = "Idle" /\ current_state' # "Idle")
      ]_vars

\* C8: record_activity called in state Away opens a new session: the snapshot
\* taken right after it has event_count = 1, no idle periods, no category
\* time, and started_at = the instant of that activity.
C8_NewSessionAfterAway ==
    [][ op' = "record_activity" /\ current_state = "Away" =>
          /\ GetSession(now)' # None
          /\ Unwrap(GetSession(now))'.event_count = 1
          /\ Unwrap(GetSession(now))'.idle_periods = << >>
          /\ Unwrap(GetSession(now))'.time_by_category = << >>
          /\ Unwrap(GetSession(now))'.started_at = now'
      ]_vars

\* C9: in every snapshot active time + recorded idle time = session duration
\* to within a second of rounding, and the recorded idle time never exceeds
\* the session duration (the clamp at zero never engages).
C9_ActivePlusIdleIsDuration ==
    session_start # None =>
        \A t \in now..MaxTimeIdle :
            /\ TotalIdleSecs <= DurationSecs(t)
            /\ ActiveSecs(t) + TotalIdleSecs - DurationSecs(t) \in {0 - 1, 0, 1}

\* C10: with the meeting flag on and ignore_idle_in_meetings enabled no
\* check_idle() leaves a state other than Active; with
\* ignore_idle_in_meetings disabled the flag does not enter the outcome.
C10_MeetingSuppressesIdle ==
    [][ op' = "check_idle" =>
          /\ (in_meeting /\ idle_config.ignore_idle_in_meetings => current_state' = "Active")
          /\ (~idle_config.ignore_idle_in_meetings =>
                 current_state' = ByThresholds(EffectiveElapsed'))
      ]_vars

\* check_idle() left Active a detector whose last activity is a full
\* session_end_threshold old, because the meeting flag is on.
C10_Witness ==
    /\ op = "check_idle"
    /\ in_meeting
    /\ idle_config.ignore_idle_in_meetings
    /\ session_event_count > 0
    /\ AppElapsed >= idle_config.session_end_threshold
    /\ current_state = "Active"

\* C11: every record_activity call, from any prior state, leaves the detector
\* Active with a session open, no open idle period and event_count one
\* higher, and returns a state-change record iff the state before the call
\* was not Active.
C11_RecordActivityResets ==
    [][ op' = "record_activity" =>
          /\ current_state' = "Active"
          /\ InSession'
          /\ current_idle_start' = None
          /\ GetSession(now)' # None
          /\ Unwrap(GetSession(now))'.event_count = session_event_count + 1
          /\ (ev' # None <=> current_state # "Active")
          /\ (ev' # None => /\ Unwrap(ev').previous_state = DebugLower(current_state)
                            /\ Unwrap(ev').new_state = "active")
      ]_vars

\* record_activity found the detector Away in a session that already had an
\* event, and returned the away -> active record.
C11_Witness ==
    /\ op = "record_activity"
    /\ ev # None
    /\ Unwrap(ev).previous_state = "away"
    /\ current_state = "Active"
    /\ session_event_count = 2
    /\ InSession

\* C12: had_meetings is true whenever the meeting flag is true while a
\* session is open (a session opened with the flag already true included) or
\* a Meeting-category activity was recorded in it, and once true it stays
\* true, set_in_meeting(false) included, until the session is ended.
C12_HadMeetingsSticky ==
    [][ /\ (session_start' # None /\ in_meeting' => Unwrap(GetSession(now))'.had_meetings)
        /\ (op' = "record_activity" /\ last_activity_category' = Some("Meeting") =>
               Unwrap(GetSession(now))'.had_meetings)
        /\ (session_start # None /\ session_had_meetings /\ op' # "end_session" =>
               session_had_meetings')
      ]_vars

\* C13: end_session() returns the snapshot get_session() would have returned
\* at that moment and clears the session; get_session() is None until the
\* next record_activity, which starts a session with event_count = 1, no idle
\* periods, no category time and had_meetings false (read here as: unless
\* that activity is itself of category Meeting); end_session() with no
\* session open returns None and changes nothing the detector's getters show.
C13_EndSessionSnapshotAndReset ==
    [][ /\ (op' = "end_session" =>
               /\ \E t \in now..MaxTimeIdle : now' = t /\ snapshot' = GetSession(t)
               /\ GetSession(now)' = None)
        /\ (op' = "end_session" /\ session_start = None =>
               /\ snapshot' = None
               /\ UNCHANGED <<current_state, in_meeting, session_start, last_activity>>)
        /\ (session_start = None /\ op' # "record_activity" => GetSession(now)' = None)
        /\ (session_start = None /\ last_activity_type # None /\ op' = "record_activity" =>
               /\ Unwrap(GetSession(now))'.event_count = 1
               /\ Unwrap(GetSession(now))'.idle_periods = << >>
               /\ Unwrap(GetSession(now))'.time_by_category = << >>
               /\ Unwrap(GetSession(now))'.had_meetings =
                      (last_activity_category' = Some("Meeting")))
      ]_vars

(***************************************************************************)
(* Properties of the meeting detector                                      *)
(***************************************************************************)
\* The window given to the last check_window is one in which a meeting is detected.
SawMeeting == last_window # None /\ Detections[Unwrap(last_window)] # None

Emitted(evs, type) == \E i \in 1..Len(evs) : evs[i].event_type = type

\* C14: check_window never emits MeetingStart before min_meeting_duration has
\* elapsed since the first matching observation: the first match records the
\* potential start and emits nothing; a later match confirms exactly when the
\* minimum has elapsed, with started_at and the event timestamp backdated by
\* the elapsed whole seconds to the potential start; at one call per second
\* and min_meeting_duration = 30 s, a window first matching at tick 1 is
\* confirmed at tick 31.
C14_StartAfterMinDuration ==
    [][ /\ (SawMeeting' /\ potential_meeting_start = None =>
               /\ potential_meeting_start' = Some(now')
               /\ events' = << >>
               /\ ~InMeeting')
        /\ (Emitted(events', "MeetingStart") =>
               /\ potential_meeting_start # None
               /\ now' - Unwrap(potential_meeting_start) >=
                      meeting_config.min_meeting_duration_secs * SubSec)
        /\ (SawMeeting' /\ potential_meeting_start # None /\ ~InMeeting
              /\ now' - Unwrap(potential_meeting_start) >=
                     meeting_config.min_meeting_duration_secs * SubSec =>
               /\ InMeeting'
               /\ Len(events') = 1
               /\ events'[1].event_type = "MeetingStart"
               /\ events'[1].timestamp = Unwrap(meeting_state'.started_at)
               /\ Unwrap(meeting_state'.started_at) >= Unwrap(potential_meeting_start)
               /\ Unwrap(meeting_state'.started_at) - Unwrap(potential_meeting_start) < SubSec
               /\ ((now' - Unwrap(potential_meeting_start)) % SubSec = 0 =>
                      meeting_state'.started_at = potential_meeting_start))
        /\ (meeting_config = MeetingDefault /\ potential_meeting_start = Some(SubSec)
              /\ SawMeeting' /\ ~InMeeting =>
               (InMeeting' <=> now' >= 31 * SubSec))
      ]_vars

\* Under the defaults a window first seen at tick 1 is confirmed at tick 31,
\* backdated to tick 1.
C14_Witness ==
    /\ meeting_config = MeetingDefault
    /\ now = 31 * SubSec
    /\ InMeeting
    /\ meeting_state.started_at = Some(SubSec)
    /\ Len(events) = 1
    /\ events[1].event_type = "MeetingStart"
    /\ events[1].timestamp = SubSec

\* C15 as claimed: a confirmed meeting survives a non-matching or absent
\* window while the time since the last matching observation has not
\* exceeded grace_period (no event, in_meeting() true); once it has, the next
\* non-matching check emits exactly one MeetingEnd whose duration runs from
\* the backdated started_at to that check.
C15_GraceNotExceeded ==
    [][ InMeeting /\ ~SawMeeting' /\ last_meeting_activity # None =>
          IF now' - Unwrap(last_meeting_activity) <= meeting_config.grace_period_secs * SubSec
          THEN InMeeting' /\ events' = << >>
          ELSE /\ ~InMeeting'
               /\ Len(events') = 1
               /\ events'[1].event_type = "MeetingEnd"
               /\ events'[1].duration_minutes =
                      Some((now' - Unwrap(meeting_state.started_at)) \div (60 * SubSec))
      ]_vars

\* C15 as amended: the same with the boundary where the code has it: the
\* meeting survives while less than grace_period has elapsed since the last
\* matching observation, and ends at the first non-matching check made when
\* grace_period or more has elapsed.
C15_GraceNotReached ==
    [][ InMeeting /\ ~SawMeeting' /\ last_meeting_activity # None =>
          IF now' - Unwrap(last_meeting_activity) < meeting_config.grace_period_secs * SubSec
          THEN /\ InMeeting'
               /\ events' = << >>
               /\ UNCHANGED <<meeting_state, last_meeting_activity>>
          ELSE /\ ~InMeeting'
               /\ Len(events') = 1
               /\ events'[1].event_type = "MeetingEnd"
               /\ events'[1].timestamp = now'
               /\ events'[1].duration_minutes =
                      Some((now' - Unwrap(meeting_state.started_at)) \div (60 * SubSec))
      ]_vars

\* Under the defaults a meeting confirmed at tick 31 is ended by a check without
\* a meeting window 60 s after the last match, and reported as one minute long.
C15_Witness ==
    /\ meeting_config = MeetingDefault
    /\ ~SawMeeting
    /\ ~InMeeting
    /\ Len(events) = 1
    /\ events[1].event_type = "MeetingEnd"
    /\ events[1].duration_minutes = Some(1)
    /\ events[1].timestamp = now

\* The browsers meeting.rs:317 names.
BrowserNames ==
    { <<"c","h","r","o","m","e">>, <<"a","r","c">>, <<"s","a","f","a","r","i">>,
      <<"f","i","r","e","f","o","x">>, <<"e","d","g","e">> }

\* The platform at entry i of the table matches window w, as C16 words it.
PlatformMatches(i, w) ==
    LET app == ToLowercase(w.app_name)
        title == ToLowercase(w.title)
    IN  /\ \E sub \in MEETING_APPS[i].app_name_contains : Contains(app, ToLowercase(sub))
        /\ \/ \E sub \in MEETING_APPS[i].title_patterns : Contains(title, ToLowercase(sub))
           \/ ~ \E b \in BrowserNames : Contains(app, b)

\* C16: a window matches a platform iff its app name contains one of the
\* platform's app-name substrings and its title contains one of the
\* platform's title substrings or the app is not a browser; the first
\* platform in table order that matches wins; a browser window without a
\* matching title and a non-meeting app match nothing.
C16_DetectByAppAndTitle ==
    /\ \A w \in DetectWindows :
          LET matching == {i \in 1..Len(MEETING_APPS) : PlatformMatches(i, w)}
          IN  IF matching = {} THEN Detections[w] = None
              ELSE /\ Detections[w] # None
                   /\ \E i \in matching :
                         /\ \A j \in matching : i <= j
                         /\ Unwrap(Detections[w]).platform = MEETING_APPS[i].platform
    /\ Detections[BrowserWindow] = None
    /\ Detections[EdgeTeamsWindow] = None
    /\ Detections[EditorWindow] = None
    /\ [][ /\ (SawMeeting' => last_meeting_activity' = Some(now'))
            /\ (~SawMeeting' => last_meeting_activity' \in {last_meeting_activity, None})
            /\ (Emitted(events', "MeetingStart") =>
                  /\ Some(events'[1].platform) = meeting_state'.platform
                  /\ events'[1].platform = Unwrap(Detections[Unwrap(last_window')]).platform)
          ]_vars

\* A window matching both Teams and Webex by app name was confirmed as a
\* Teams meeting, the earlier entry of the table.
C16_Witness ==
    /\ last_window = Some(WebexTeamsWindow)
    /\ Emitted(events, "MeetingStart")
    /\ meeting_state.platform = Some("Teams")
    /\ Detections[ZoomIdleWindow] # None
    /\ Detections[MeetWindow] # None

(***************************************************************************)
(* The orchestrator                                                        *)
(***************************************************************************)
\* The loop is between two ticks: the tick's sections are done and the next
\* ticker.tick() has not completed.
TickDone == tick_pc = <<"await", "">> /\ ticks >= 1

\* C17 (as stated): on every tick, whatever the request handlers are doing
\* with the locks, the idle detector's in_meeting flag is overwritten with
\* the meeting detector's in_meeting(), so after each tick the two agree.
C17_SyncedEveryTick == TickDone => in_meeting = meeting_state.in_meeting

\* C17 (amended): the loop takes the idle detector's lock with try_lock.  On
\* every tick at which that lock is free when the loop tries it, the flag is
\* overwritten with the meeting detector's in_meeting() and the two agree
\* after the tick; on a tick at which a request handler holds it, the flag is
\* left as it was.
C17_SyncedWhenLockFree ==
    /\ [](TickDone /\ synced => in_meeting = meeting_state.in_meeting)
    /\ [][ tick_pc = <<"meeting", "idle">> /\ tick_pc' # tick_pc =>
              IF Free("idle_detector")
              THEN tick_pc' = <<"meeting", "sync">>
              ELSE in_meeting' = in_meeting /\ ~synced' ]_vars
    /\ [][ tick_pc = <<"meeting", "sync">> /\ tick_pc' # tick_pc =>
              in_meeting' = meeting_state.in_meeting /\ synced' ]_vars

\* A tick ended with the two flags agreeing on a confirmed meeting.
C17_Witness ==
    /\ TickDone
    /\ synced
    /\ meeting_state.in_meeting
    /\ in_meeting

\* The loop leaves the start of its idle section (main.rs:336-341).
LeavesIdleSection == tick_pc = <<"idle", "">> /\ tick_pc' # tick_pc

\* C18: the loop calls check_idle() on every 10th tick (ticks 10, 20, ...),
\* so that at the end of every 10th tick a detector whose idle threshold was
\* crossed without a new signal is no longer Active.
C18_CheckIdleEveryTenthTick ==
    /\ [][ LeavesIdleSection =>
              (tick_pc' = <<"idle", "check">> <=> ticks % 10 = 0) ]_vars
    /\ [](TickDone /\ ticks % 10 = 0 /\ ~in_meeting
            /\ now - last_activity >= idle_config.idle_threshold
          => current_state # "Active")

\* C19: a check_idle() that was due on a tick at which a request handler held
\* the idle detector's lock is performed on the next tick at which the lock
\* is free.
C19_SkippedCheckRetriedNextTick ==
    [][ LeavesIdleSection /\ idle_check_skipped /\ Free("idle_detector") =>
          tick_pc' = <<"idle", "check">> ]_vars

\* the locks `who` holds
HeldBy(who) == {l \in Locks : locks[l] = who}

\* C20: neither the tick loop nor a request handler holds the lock of one
\* component while acquiring or holding the lock of another, and the loop
\* holds no lock across ticker.tick().await.
C20_NoNestedLocks ==
    /\ [](\A who \in {"tick"} \cup DOMAIN handler_pc : Cardinality(HeldBy(who)) <= 1)
    /\ [][ \A who \in {"tick"} \cup DOMAIN handler_pc :
              HeldBy(who)' \ HeldBy(who) # {} => HeldBy(who) = {} ]_vars
    /\ [](tick_pc = <<"await", "">> => HeldBy("tick") = {})

\* The loop is at a store.lock() (main.rs:190, 225, 267, 291, 319, 343) and
\* a request handler holds the store's lock: the loop waits for the handler.
TickWaits == tick_pc[2] = "store" /\ locks["store"] \in DOMAIN handler_pc

\* C21: every lock acquisition of the tick loop is a non-blocking attempt, so
\* the loop never waits for a lock that a request handler holds.
C21_TickNeverWaits == ~TickWaits

\* C22: every derived record the tick loop gets (a state-change record
\* returned by record_activity or check_idle, a meeting event returned by
\* check_window) has been handed to insert_event when the tick is done.
C22_DerivedRecordsStored == TickDone => unstored = {}

\* The loop stores a signal it drained from a capture collaborator: the file
\* watcher, the window tracker, the clipboard tracker or the hotkey manager.
StoresDrainedSignal ==
    /\ tick_pc[1] \in {"files", "window", "clipboard", "hotkey"}
    /\ tick_pc[2] = "insert"
    /\ tick_pc' # tick_pc

\* C23: every signal the tick loop drains from a capture collaborator is
\* routed into the idle detector by record_activity, so that when the signal
\* is stored the idle clock stands at the current tick; in particular a
\* drained file-change event resets the idle clock.
C23_DrainedSignalsRecordActivity ==
    [][ StoresDrainedSignal => last_activity' = now' ]_vars

(***************************************************************************)
(* The idle detector, continued                                            *)
(***************************************************************************)
\* The step is a check_idle() that reactivates from Idle because the meeting
\* flag is set (idle.rs:369-381).
ReactivatedByMeeting ==
    /\ op' = "check_idle"
    /\ Suppressed
    /\ current_state = "Idle"
    /\ current_state' = "Active"

\* The step appends an idle period that started at `start`.
AppendsPeriodFrom(start) ==
    /\ Len(idle_periods') = Len(idle_periods) + 1
    /\ idle_periods'[Len(idle_periods')].started_at = start

\* C24: a check_idle() that reactivates from Idle because the meeting flag is
\* set opens and closes no idle period, and the idle period that was open then
\* is discarded: no later call appends it to idle_periods.
C24_MeetingReactivationDiscardsIdle ==
    /\ [][ ReactivatedByMeeting =>
              /\ idle_periods' = idle_periods
              /\ current_idle_start' \in {current_idle_start, None} ]_vars
    /\ [][ current_state = "Active" /\ current_idle_start # None =>
              ~AppendsPeriodFrom(Unwrap(current_idle_start)) ]_vars

\* C25: in every reachable state the idle periods of the session are ordered
\* by start time and do not overlap: each period starts at or before its own
\* end, and at or after the end of the period before it.
C25_IdlePeriodsOrdered ==
    \A i \in 1..Len(idle_periods) :
        /\ idle_periods[i].started_at <= idle_periods[i].ended_at
        /\ i > 1 => idle_periods[i].started_at >= idle_periods[i - 1].ended_at

\* Two idle periods were recorded, the first of positive length and the
\* second opened after the first had ended.
C25_Witness ==
    /\ Len(idle_periods) = 2
    /\ idle_periods[1].started_at < idle_periods[1].ended_at
    /\ idle_periods[2].started_at > idle_periods[1].ended_at

\* The accumulators `ct` with `secs` more seconds on the one named `name`.
WithCredit(ct, name, secs) ==
    [k \in (DOMAIN ct) \cup {name} |->
        IF k = name THEN (IF k \in DOMAIN ct THEN ct[k] ELSE 0) + secs ELSE ct[k]]

\* Whole seconds from the previous category timestamp to the step's instant.
SecondsInCategory == (now' - last_category_change) \div SubSec

\* The step credits the elapsed whole seconds to the current category only,
\* and nothing when there is no current category.
CreditsCurrentCategory ==
    category_time' =
        (IF current_category = None THEN category_time
         ELSE WithCredit(category_time, DebugLower(Unwrap(current_category)),
                         SecondsInCategory))

\* C26: each record_activity credits the whole seconds elapsed since the
\* previous category timestamp to the previously current category only, then
\* makes the new category current; a check_idle that goes Idle or Away credits
\* the elapsed time to the current category and clears it, so that the next
\* record_activity credits the time since then to no category.
C26_CategoryTimeCredited ==
    /\ [][ op' = "record_activity" =>
              /\ CreditsCurrentCategory
              /\ current_category' = last_activity_category'
              /\ current_category' # None
              /\ last_category_change' = now' ]_vars
    /\ [][ op' = "check_idle" /\ current_state' # current_state
            /\ current_state' \in {"Idle", "Away"} =>
              /\ CreditsCurrentCategory
              /\ current_category' = None
              /\ last_category_change' = now' ]_vars
    /\ [][ op' = "record_activity" /\ current_state \in {"Idle", "Away"} =>
              category_time' = category_time ]_vars

\* A record_activity for a meeting app credited a second or more to the
\* terminal category, which was current until then.
C26_Witness ==
    /\ op = "record_activity"
    /\ current_category = Some("Meeting")
    /\ "terminal" \in DOMAIN category_time
    /\ category_time["terminal"] >= 1

\* C27: the record returned by a record_activity that reactivates from Idle or
\* Away reports as idle_duration the whole seconds elapsed between the
\* previously recorded activity and this call, and as previous_state the
\* state held before the call.
C27_ReactivationReportsIdleDuration ==
    [][ op' = "record_activity" /\ current_state \in {"Idle", "Away"} =>
          /\ ev' # None
          /\ Unwrap(ev').previous_state = DebugLower(current_state)
          /\ Unwrap(ev').new_state = "active"
          /\ Unwrap(ev').idle_duration_seconds = (now' - last_activity) \div SubSec ]_vars

(***************************************************************************)
(* The meeting detector, continued                                         *)
(***************************************************************************)
\* C28: over any sequence of check_window calls the emitted events alternate
\* MeetingStart, MeetingEnd, ... beginning with MeetingStart: a call emits at
\* most one event; a MeetingStart is emitted exactly when in_meeting() turns
\* true and a MeetingEnd exactly when it turns false, so none ends a candidate
\* that was never confirmed and none starts a meeting twice; the state of a
\* confirmed meeting is the platform and title of its MeetingStart, is kept
\* until the MeetingEnd, which carries them; after a MeetingEnd all meeting
\* state is empty.
C28_StartEndAlternate ==
    /\ [](meeting_state.in_meeting <=> emitted_start)
    /\ [][ /\ Len(events') <= 1
           /\ Emitted(events', "MeetingStart") <=>
                 (~meeting_state.in_meeting /\ meeting_state'.in_meeting)
           /\ Emitted(events', "MeetingEnd") <=>
                 (meeting_state.in_meeting /\ ~meeting_state'.in_meeting)
           /\ Emitted(events', "MeetingStart") =>
                 /\ meeting_state'.platform = Some(events'[1].platform)
                 /\ meeting_state'.title = events'[1].title
           /\ (meeting_state.in_meeting /\ meeting_state'.in_meeting) =>
                 meeting_state' = meeting_state
           /\ Emitted(events', "MeetingEnd") =>
                 /\ Some(events'[1].platform) = meeting_state.platform
                 /\ events'[1].title = meeting_state.title
                 /\ meeting_state' = [in_meeting |-> FALSE, platform |-> None,
                                      started_at |-> None, title |-> None]
                 /\ potential_meeting_start' = None
                 /\ last_meeting_activity' = None
                 /\ ~emitted_start'
          ]_vars

\* A Google Meet meeting that was confirmed has ended on a window that is no
\* meeting, and the MeetingEnd names it.
C28_Witness ==
    /\ Emitted(events, "MeetingEnd")
    /\ events[1].platform = "GoogleMeet"
    /\ last_window = Some(EditorWindow)
    /\ ~meeting_state.in_meeting
    /\ potential_meeting_start = None

\* C29: a momentary glance at a meeting app confirms no meeting: a
\* MeetingStart is emitted only when the matching observations persisted
\* without interruption, so the check_window call before the confirming one
\* saw a meeting window too.
C29_NoStartAfterInterruption ==
    [][ Emitted(events', "MeetingStart") => SawMeeting ]_vars

(***************************************************************************)
(* The ingest handlers                                                     *)
(***************************************************************************)
\* The positions of an ingest handler in the order the claim gives them:
\* deduplicator, then record_activity, then insert_event.
IngestOrder ==
    { <<"none", "ingest_dedup">>, <<"ingest_dedup", "none">>,
      <<"ingest_dedup", "ingest_accepted">>, <<"ingest_accepted", "ingest_idle">>,
      <<"ingest_idle", "ingest_recorded">>, <<"ingest_recorded", "ingest_store">>,
      <<"ingest_store", "none">> }

\* C30: in each ingest handler the order is deduplicator, record_activity,
\* insert_event; an event that should_process rejects causes neither a
\* record_activity nor an insert_event, so it neither resets the idle clock
\* nor increases the event count; an accepted event causes one of each.
C30_IngestOrder ==
    [][ /\ \A h \in DOMAIN handler_pc :
              /\ HandlerAt(h)' # HandlerAt(h) => <<HandlerAt(h), HandlerAt(h)'>> \in IngestOrder
              /\ (HandlerAt(h) = "ingest_dedup" /\ HandlerAt(h)' # HandlerAt(h)) =>
                    /\ ret' <=> HandlerAt(h)' = "ingest_accepted"
                    /\ last_activity' = last_activity
                    /\ session_event_count' = session_event_count
                    /\ stored' = stored
              /\ (HandlerAt(h) = "ingest_idle" /\ HandlerAt(h)' # HandlerAt(h)) =>
                    /\ op' = "record_activity"
                    /\ last_activity_type' = Some(HandlerEvent(h).kind)
                    /\ last_activity' = now'
                    /\ session_event_count' = session_event_count + 1
                    /\ stored' = stored
              /\ (HandlerAt(h) = "ingest_store" /\ HandlerAt(h)' # HandlerAt(h)) =>
                    /\ stored' = stored \cup {"ingest"}
                    /\ session_event_count' = session_event_count
        /\ (\A h \in DOMAIN handler_pc :
                HandlerAt(h)' = HandlerAt(h) \/ HandlerAt(h) \notin {"ingest_idle", "ingest_store"}) =>
              /\ session_event_count' = session_event_count
              /\ last_activity' = last_activity
              /\ stored' = stored
      ]_vars

\* A filesystem event was accepted, recorded and stored once, and the same
\* event sent again a second later was rejected: the idle clock and the event
\* count are those of the first.
C30_Witness ==
    /\ \A h \in DOMAIN handler_pc : HandlerAt(h) = "none"
    /\ arg.kind = "filesystem"
    /\ ~ret
    /\ session_event_count = 1
    /\ last_activity_type = Some("filesystem")
    /\ "ingest" \in stored
    /\ now >= last_activity + SubSec

(***************************************************************************)
(* Deadlock freedom                                                        *)
(***************************************************************************)
\* the tasks that take locks
Tasks == {"tick"} \cup DOMAIN handler_pc

\* the lock a task is blocked on: the loop at a store.lock() (main.rs:190,
\* 225, 267, 291, 319, 343), a handler at idle_detector.lock() (api.rs:91) or
\* store.lock() (api.rs:115)
WaitsFor(task) ==
    IF task = "tick"
    THEN (IF tick_pc[2] = "store" THEN {"store"} ELSE {})
    ELSE CASE HandlerAt(task) = "ingest_accepted" -> {"idle_detector"}
           [] HandlerAt(task) = "ingest_recorded" -> {"store"}
           [] OTHER -> {}

\* the tasks that hold a lock one of `waiting` is blocked on
Blockers(waiting) == {locks[l] : l \in UNION {WaitsFor(task) : task \in waiting}} \ {"free"}

\* the tasks `task` waits for, directly or through others
WaitChain(task) ==
    Blockers({task}) \cup Blockers(Blockers({task})) \cup Blockers(Blockers(Blockers({task})))

C32_SweepOnlyExpired ==
    [][ LET key == KeyOf(arg')
            due == now' - last_cleanup >= config.cleanup_interval
        IN  /\ last_cleanup' = (IF due THEN now' ELSE last_cleanup)
            /\ \A k \in (DOMAIN cache) \ {key} :
                  /\ k \in DOMAIN cache' <=>
                        (~due \/ now' - cache[k].timestamp < 10 * config.window)
                  /\ k \in DOMAIN cache' => cache'[k] = cache[k]
            /\ \A k \in DOMAIN cache :
                  now' - cache[k].timestamp < config.window => k \in DOMAIN cache'
            /\ ret' <=> (key \notin DOMAIN cache
                           \/ now' - cache[key].timestamp >= config.window)
      ]_vars

\* A sweep has just run: it removed the entry of an event accepted at least
\* 10 x window earlier and it kept the entry of another key.
C32_Witness ==
    /\ last_cleanup = now
    /\ now > 0
    /\ \E sig \in ExpirySignals :
          /\ accepted_at[sig] # Never
          /\ now - accepted_at[sig] >= 10 * config.window
          /\ KeyOf(sig) \notin DOMAIN cache
    /\ \E k \in DOMAIN cache : cache[k].timestamp < now

(***************************************************************************)
(* The record of a meeting-driven reactivation                             *)
(***************************************************************************)
\* C33: the state-change record that check_idle() emits for a meeting-driven
\* reactivation names as previous_state the state the detector was in before
\* the call (idle or away), and as new_state active.
C33_ReactivationNamesPreviousState ==
    [][ (op' = "check_idle" /\ Suppressed /\ current_state # "Active") =>
          /\ ev' # None
          /\ ev'[1].previous_state = DebugLower(current_state)
          /\ ev'[1].new_state = "active" ]_vars

(***************************************************************************)
(* The open idle period                                                    *)
(***************************************************************************)
\* C34: in every reachable state of the detector an idle period is open
\* (current_idle_start is set) if and only if the state is Idle: no idle start
\* survives into Active or Away after any sequence of record_activity,
\* check_idle, set_in_meeting and end_session.
C34_IdleStartIffIdle == IsSome(current_idle_start) <=> current_state = "Idle"

(***************************************************************************)
(* Idle and away time of a session                                         *)
(***************************************************************************)
\* C35: within a session the recorded idle periods cover every interval in
\* which the state was Idle or Away, so that none of it is counted as active
\* time: an idle period opens when check_idle leaves Active, for Away as for
\* Idle; it stays open while the state is Idle or Away; and the step that
\* returns to Active closes it at that instant.
C35_IdleAndAwayTimeCovered ==
    [][ (session_start # None /\ op' # "end_session") =>
          /\ (current_state = "Active" /\ current_state' # "Active") =>
                current_idle_start' = Some(now')
          /\ (current_state # "Active" /\ current_state' # "Active") =>
                /\ current_idle_start' = current_idle_start
                /\ idle_periods' = idle_periods
          /\ (current_state # "Active" /\ current_state' = "Active") =>
                /\ IsSome(current_idle_start)
                /\ current_idle_start' = None
                /\ Len(idle_periods') = Len(idle_periods) + 1
                /\ idle_periods'[Len(idle_periods')].started_at = Unwrap(current_idle_start)
                /\ idle_periods'[Len(idle_periods')].ended_at = now' ]_vars

(***************************************************************************)
(* The direction of the transitions check_idle makes                       *)
(***************************************************************************)
\* the order Active, Idle, Away of ActivityState (idle.rs:131-135)
StateRank(state) == CASE state = "Active" -> 0 [] state = "Idle" -> 1 [] state = "Away" -> 2

\* C36: between two record_activity calls and with the meeting flag off,
\* check_idle() only moves the state forward along Active -> Idle -> Away,
\* never backward, whether or not the system idle probe is enabled and
\* whatever it reports.
C36_ChecksOnlyMoveForward ==
    [][ (op' = "check_idle" /\ ~in_meeting) =>
          StateRank(current_state') >= StateRank(current_state) ]_vars

(***************************************************************************)
(* Rejected duplicates and the window                                      *)
(***************************************************************************)
\* C37: a rejected duplicate does not extend the window: the entry's
\* timestamp is that of the last accepted sighting, a rejected call only
\* increments the entry's repeat count, an acceptance sets the timestamp to
\* the call's instant and the count to 1, and a key is accepted again as soon
\* as one window has passed since its previous acceptance, however often it
\* was presented in between.
C37_RejectionKeepsWindow ==
    /\ [](\A sig \in Signals :
            KeyOf(sig) \in DOMAIN cache => cache[KeyOf(sig)].timestamp = accepted_at[sig])
    /\ [][ LET key == KeyOf(arg')
           IN  /\ ~ret' =>
                     /\ key \in DOMAIN cache
                     /\ cache'[key] = [timestamp |-> cache[key].timestamp,
                                       count |-> cache[key].count + 1]
               /\ ret' => cache'[key] = [timestamp |-> now', count |-> 1]
               /\ (accepted_at[arg'] # Never /\ now' - accepted_at[arg'] >= config.window) => ret'
         ]_vars

\* One key presented three times or more: accepted, rejected inside the
\* window, and accepted again exactly one window after the first acceptance.
C37_Witness ==
    /\ calls = 3
    /\ ret
    /\ DOMAIN cache = {KeyOf(arg)}
    /\ config.window > 1
    /\ now = config.window
    /\ cache[KeyOf(arg)] = [timestamp |-> now, count |-> 1]

(***************************************************************************)
(* The end of a meeting                                                    *)
(***************************************************************************)
\* the window of the last check_window shows no meeting
NoMeetingSeen == last_window = None \/ Detections[Unwrap(last_window)] = None

\* the ticks that are left suffice for the grace period of the last match
GraceInsideHorizon ==
    IsSome(last_meeting_activity) =>
        Unwrap(last_meeting_activity) + meeting_config.grace_period_secs * SubSec
            <= MaxTicks * SubSec

\* the detector holds neither a meeting nor a candidate
MeetingCleared ==
    /\ ~InMeeting
    /\ potential_meeting_start = None
    /\ last_meeting_activity = None

\* C38: with check_window called on every tick, a meeting or a candidate
\* whose window stops matching and never matches again is eventually cleared
\* for good and in_meeting() becomes false; the last match is never older than the
\* grace period after a call; and the call that clears emits one MeetingEnd
\* when the meeting was confirmed and no event when it was a candidate.
C38_MeetingEventuallyEnds ==
    /\ (<>[](meeting_config = MeetingDefault /\ NoMeetingSeen /\ GraceInsideHorizon))
          => <>[]MeetingCleared
    /\ [](meeting_config = MeetingDefault /\ IsSome(last_meeting_activity) =>
            AsSecs(now - Unwrap(last_meeting_activity)) < meeting_config.grace_period_secs)
    /\ [][ (IsSome(last_meeting_activity) /\ last_meeting_activity' = None) =>
              /\ MeetingCleared'
              /\ IF meeting_state.in_meeting
                 THEN Len(events') = 1 /\ events'[1].event_type = "MeetingEnd"
                 ELSE events' = << >> ]_vars

\* Under the default thresholds a confirmed meeting has just ended: the call
\* made 60 s after the last match emitted MeetingEnd.
C38_Witness ==
    /\ meeting_config = MeetingDefault
    /\ MeetingCleared
    /\ NoMeetingSeen
    /\ Len(events) = 1
    /\ events[1].event_type = "MeetingEnd"

(***************************************************************************)
(* Concurrent ingests of one key                                           *)
(***************************************************************************)
\* the handlers whose event should_process accepted and that have not yet
\* called record_activity
AcceptedNotRecorded ==
    {h \in DOMAIN handler_pc : HandlerAt(h) \in {"ingest_accepted", "ingest_idle"}}

C40_SkippedSignalRecordedLater ==
    \A sec \in SignalSections : (sec \in unrecorded) ~> (sec \notin unrecorded)

====
